---- MODULE Spec2Model ----
(***************************************************************************)
(* Model of the text-to-record extraction engine of inmobiliario_scrapers: *)
(* the text normalizer and numeric parsers of core/utils.py and the card   *)
(* grammar of nexo/parser.py, the card extraction of nexo/extract.py, the  *)
(* URL normalization of nexo/discover.py, and the batch script with its    *)
(* registry (scripts/nexo_batch_old.py, registry/sqlite_registry.py).      *)
(*                                                                         *)
(* A Python str is a sequence of Unicode code points (naturals).  An       *)
(* Optional value is None (the empty tuple) or Some(x) (a one-tuple).  A   *)
(* float is a decimal <<m, e>> standing for m / 10^e, with no trailing     *)
(* zero in the fraction, so that equal floats are equal tuples for the     *)
(* inputs of the model (at most nine significant digits).                  *)
(***************************************************************************)
EXTENDS Integers, Sequences, FiniteSets, TLC

VARIABLES
    fn,     \* name of the function that was called, "none" before the call
    arg,    \* the argument of the call: None or Some(text)
    ret,    \* None before the call, Some(returned value) after it
    registry,   \* the tables of the SQLite registry of the batch runs
    main,       \* the batch script: its position and its local variables
    now         \* the clock that utc_now() reads

vars == <<fn, arg, ret, registry, main, now>>

None == <<>>
Some(x) == <<x>>
Val(o) == o[1]

\* The registry after _init_schema on a new file: four empty tables.
EmptyRegistry ==
    [runs |-> {}, url_results |-> {}, artifacts |-> {}, diffs |-> {}]

\* The batch script when it is not running.
Idle == [pc |-> "idle", run_id |-> 0, urls |-> <<>>, i |-> 0, ok |-> 0,
         fail |-> 0]

\* No batch runs: the registry stays empty.
NoBatch == registry = EmptyRegistry /\ main = Idle /\ now = 0

SetMax(S) == CHOOSE x \in S : \A y \in S : y <= x
SetMin(S) == CHOOSE x \in S : \A y \in S : x <= y

Pow10(n) == <<1, 10, 100, 1000, 10000, 100000, 1000000, 10000000,
              100000000, 1000000000>>[n + 1]

(***************************************************************************)
(* Character classes of Python's re on str patterns and of str.strip.      *)
(***************************************************************************)
\* \s and str.isspace: the Unicode whitespace characters.
IsSpace(c) ==
    \/ c \in 9..13
    \/ c \in 28..32
    \/ c \in {133, 160, 5760, 8232, 8233, 8239, 8287, 12288}
    \/ c \in 8192..8202

\* \d: the decimal digits (category Nd) below U+0800: ASCII, Arabic-Indic,
\* Extended Arabic-Indic and NKo.  int() and float() read all of them.
IsDigit(c) ==
    \/ c \in 48..57
    \/ c \in 1632..1641
    \/ c \in 1776..1785
    \/ c \in 1984..1993

\* The value of a decimal digit: each of the four blocks starts at a
\* multiple of 16.
DigitVal(c) == c % 16

\* [\d\.,]
IsNumChar(c) == IsDigit(c) \/ c = 46 \/ c = 44

\* Case folding of re.IGNORECASE, for the characters below U+0100 and the
\* four characters above it that fold onto an ASCII letter.
Fold(c) ==
    IF c \in 65..90 THEN c + 32
    ELSE IF c \in 192..222 /\ c # 215 THEN c + 32
    ELSE IF c = 383 THEN 115
    ELSE IF c = 304 \/ c = 305 THEN 105
    ELSE IF c = 8490 THEN 107
    ELSE c

\* [A-Za-z0-9\-_] under re.IGNORECASE
IsWordChar(c) ==
    \/ Fold(c) \in 97..122
    \/ c \in 48..57
    \/ c = 45
    \/ c = 95

\* The character classes by name.
InClass(cls, c) ==
    CASE cls = "space" -> IsSpace(c)
      [] cls = "digit" -> IsDigit(c)
      [] cls = "num" -> IsNumChar(c)
      [] cls = "word" -> IsWordChar(c)
      [] cls = "any" -> TRUE

(***************************************************************************)
(* core/utils.py: text normalizer                                          *)
(***************************************************************************)
\* The sequence f of length n as an explicit tuple: the identity on
\* sequences.
AsSeq(f, n) == SubSeq(f, 1, n)

\* The indices 1..n as a sequence.
Indices(n) == AsSeq([i \in 1..n |-> i], n)

\* clean_text without the strip(): a run of whitespace at either end is
\* left as one space.
clean_text_no_strip(s) ==
    LET t == IF s = None THEN <<>> ELSE Val(s)
        n == Len(t)
        sp(i) == IsSpace(t[i])
        keep(i) == ~sp(i) \/ i = 1 \/ ~sp(i - 1)
        kept == SelectSeq(Indices(n), keep)
    IN  AsSeq([k \in 1..Len(kept) |->
                  IF sp(kept[k]) THEN 32 ELSE t[kept[k]]], Len(kept))

\* clean_text(s): every run of whitespace becomes one space, then strip().
\* The characters kept are the non-space ones and the first character of
\* each whitespace run that has a non-space character on both sides.
clean_text(s) ==
    LET t == IF s = None THEN <<>> ELSE Val(s)
        n == Len(t)
        sp(i) == IsSpace(t[i])
        last == IF \E i \in 1..n : ~sp(i)
                THEN SetMax({i \in 1..n : ~sp(i)}) ELSE 0
        keep(i) == \/ ~sp(i)
                   \/ i > 1 /\ ~sp(i - 1) /\ i < last
        kept == SelectSeq(Indices(n), keep)
    IN  AsSeq([k \in 1..Len(kept) |->
                  IF sp(kept[k]) THEN 32 ELSE t[kept[k]]], Len(kept))

\* bytes.decode("utf-8"), strict: the number of bytes of the sequence that
\* the lead byte b announces, 0 when b cannot start a sequence.
Utf8SeqLen(b) ==
    IF b \in 0..127 THEN 1
    ELSE IF b \in 194..223 THEN 2
    ELSE IF b \in 224..239 THEN 3
    ELSE IF b \in 240..244 THEN 4
    ELSE 0

IsCont(b) == b \in 128..191

\* The second byte allowed after lead byte b: no overlong form, no
\* surrogate, nothing above U+10FFFF.
Utf8SecondOk(b, b2) ==
    IF b = 224 THEN b2 \in 160..191
    ELSE IF b = 237 THEN b2 \in 128..159
    ELSE IF b = 240 THEN b2 \in 144..191
    ELSE IF b = 244 THEN b2 \in 128..143
    ELSE IsCont(b2)

\* A well-formed sequence starts at index i of the bytes bs.
Utf8WellFormedAt(bs, i) ==
    LET k == Utf8SeqLen(bs[i])
    IN  /\ k > 0
        /\ i + k - 1 <= Len(bs)
        /\ k > 1 => Utf8SecondOk(bs[i], bs[i + 1])
        /\ \A m \in 2..(k - 1) : IsCont(bs[i + m])

\* bs decodes: every non-continuation byte starts a well-formed sequence
\* and every continuation byte belongs to the sequence started just before.
Utf8Valid(bs) ==
    \A i \in 1..Len(bs) :
        IF IsCont(bs[i])
        THEN \E k \in 1..3 : /\ i - k >= 1
                             /\ ~IsCont(bs[i - k])
                             /\ Utf8SeqLen(bs[i - k]) > k
                             /\ Utf8WellFormedAt(bs, i - k)
        ELSE Utf8WellFormedAt(bs, i)

\* The code point of the well-formed sequence that starts at index i.
Utf8CodePoint(bs, i) ==
    LET k == Utf8SeqLen(bs[i])
    IN  IF k = 1 THEN bs[i]
        ELSE IF k = 2 THEN (bs[i] - 192) * 64 + (bs[i + 1] - 128)
        ELSE IF k = 3 THEN (bs[i] - 224) * 4096 + (bs[i + 1] - 128) * 64
                           + (bs[i + 2] - 128)
        ELSE (bs[i] - 240) * 262144 + (bs[i + 1] - 128) * 4096
             + (bs[i + 2] - 128) * 64 + (bs[i + 3] - 128)

Utf8Decode(bs) ==
    LET lead(i) == ~IsCont(bs[i])
        starts == SelectSeq(Indices(Len(bs)), lead)
    IN  AsSeq([k \in 1..Len(starts) |-> Utf8CodePoint(bs, starts[k])],
              Len(starts))

\* str.encode("latin1") succeeds iff every code point is below 256, and
\* the bytes are then the code points themselves.
Latin1Encodable(s) == \A i \in 1..Len(s) : s[i] <= 255

IsAsciiChar(c) == c < 128

\* fix_mojibake that decodes with errors="ignore".
fix_mojibake_ignore_errors(s) ==
    IF s = <<>> THEN s
    ELSE IF ~Latin1Encodable(s) THEN s
    ELSE IF Utf8Valid(s) THEN Utf8Decode(s)
    ELSE SelectSeq(s, IsAsciiChar)

\* fix_mojibake that gives up with the empty string.
fix_mojibake_empty_on_failure(s) ==
    IF s = <<>> THEN s
    ELSE IF Latin1Encodable(s) /\ Utf8Valid(s) THEN Utf8Decode(s)
    ELSE <<>>

\* fix_mojibake(s): s.encode("latin1").decode("utf-8"), or s itself when s
\* is empty or either step raises.
fix_mojibake(s) ==
    IF s = <<>> THEN s
    ELSE IF Latin1Encodable(s) /\ Utf8Valid(s) THEN Utf8Decode(s)
    ELSE s

(***************************************************************************)
(* core/utils.py: numeric parsers                                          *)
(***************************************************************************)
\* The decimal m / 10^e without trailing zeros in its fraction.
Decimal(m, e) ==
    LET k == SetMax({j \in 0..e : m % Pow10(j) = 0})
    IN  <<m \div Pow10(k), e - k>>

\* int() of a string of decimal digits.
DigitsValue(ds) ==
    LET n == Len(ds)
        term(i) == DigitVal(ds[i]) * Pow10(n - i)
        RECURSIVE sum(_)
        sum(i) == IF i = 0 THEN 0 ELSE term(i) + sum(i - 1)
    IN  sum(n)

\* The length of the longest run of characters of class cls that starts
\* at index i of t.
RunLen(cls, t, i) ==
    LET stop(j) == j = Len(t) + 1 \/ ~InClass(cls, t[j])
    IN  (CHOOSE j \in i..(Len(t) + 1) :
            stop(j) /\ \A k \in i..(j - 1) : ~stop(k)) - i

\* float(r) for a string r: Some(value) when r is decimal digits with at
\* most one '.' and at least one digit, None where float() raises ValueError.
FloatOf(r) ==
    LET dots == {i \in 1..Len(r) : r[i] = 46}
    IN  IF \/ Cardinality(dots) > 1
           \/ \E i \in 1..Len(r) : ~IsDigit(r[i]) /\ r[i] # 46
           \/ ~\E i \in 1..Len(r) : IsDigit(r[i])
        THEN None
        ELSE LET d == IF dots = {} THEN Len(r) + 1 ELSE SetMin(dots)
                 frac == SubSeq(r, d + 1, Len(r))
             IN  Some(Decimal(DigitsValue(SubSeq(r, 1, d - 1) \o frac),
                              Len(frac)))

NotComma(c) == c # 44
NotSep(c) == c # 46 /\ c # 44

\* True iff re.search(r"\d", t) finds something.
HasDigit(t) == \E i \in 1..Len(t) : IsDigit(t[i])
\* The index of the first digit of t.
FirstDigit(t) == SetMin({i \in 1..Len(t) : IsDigit(t[i])})

\* parse_money_to_float that removes the commas only.
parse_money_to_float_keeps_period(text) ==
    IF text = None \/ text = Some(<<>>) THEN None
    ELSE
    LET t == fix_mojibake(clean_text(text))
    IN  IF ~HasDigit(t) THEN None
        ELSE
        LET p == FirstDigit(t)
            num == SubSeq(t, p, p + RunLen("num", t, p) - 1)
        IN  FloatOf(SelectSeq(num, NotComma))

\* parse_money_to_float(text): the first run \d[\d\.,]* of the normalized
\* text, with every '.' and ',' removed, as a float.
parse_money_to_float(text) ==
    IF text = None \/ text = Some(<<>>) THEN None
    ELSE
    LET t == fix_mojibake(clean_text(text))
    IN  IF ~HasDigit(t) THEN None
        ELSE
        LET p == FirstDigit(t)
            num == SubSeq(t, p, p + RunLen("num", t, p) - 1)
        IN  FloatOf(SelectSeq(num, NotSep))

\* parse_float that removes every comma.
parse_float_no_decimal_comma(text) ==
    IF text = None \/ text = Some(<<>>) THEN None
    ELSE
    LET t == fix_mojibake(clean_text(text))
    IN  IF ~HasDigit(t) THEN None
        ELSE
        LET p == FirstDigit(t)
            q == p + RunLen("digit", t, p)
            sep == q <= Len(t) /\ ~NotSep(t[q])
            r == IF sep THEN q + RunLen("digit", t, q + 1) ELSE q - 1
        IN  FloatOf(SelectSeq(SubSeq(t, p, r), NotComma))

\* parse_float(text): the first run \d+[\.,]?\d* of the normalized text; a
\* comma without a period becomes the period, other commas are removed.
parse_float(text) ==
    IF text = None \/ text = Some(<<>>) THEN None
    ELSE
    LET t == fix_mojibake(clean_text(text))
    IN  IF ~HasDigit(t) THEN None
        ELSE
        LET p == FirstDigit(t)
            q == p + RunLen("digit", t, p)
            sep == q <= Len(t) /\ ~NotSep(t[q])
            r == IF sep THEN q + RunLen("digit", t, q + 1) ELSE q - 1
            raw == SubSeq(t, p, r)
            hasComma == \E i \in 1..Len(raw) : raw[i] = 44
            hasDot == \E i \in 1..Len(raw) : raw[i] = 46
        IN  IF hasComma /\ ~hasDot
            THEN FloatOf(AsSeq([i \in 1..Len(raw) |->
                                   IF raw[i] = 44 THEN 46 ELSE raw[i]],
                               Len(raw)))
            ELSE FloatOf(SelectSeq(raw, NotComma))

(***************************************************************************)
(* nexo/parser.py: CARD_RE                                                 *)
(*                                                                         *)
(* The pattern is a sequence of elements.  Rep is a character class under  *)
(* *, +, *? or +?; Lit is a choice between literals in the order the       *)
(* pattern lists them (x? is the choice between x and the empty literal);  *)
(* Opt opens an optional group that ends before element "to".  An element  *)
(* with a name is a named group.  re.VERBOSE drops the pattern's own white *)
(* space, re.IGNORECASE folds case, re.DOTALL lets '.' match anything.     *)
(***************************************************************************)
FoldSeq(s) == AsSeq([i \in 1..Len(s) |-> Fold(s[i])], Len(s))
FoldAll(ss) == AsSeq([a \in 1..Len(ss) |-> FoldSeq(ss[a])], Len(ss))

Rep(cls, min, greedy, cap) ==
    [kind |-> "rep", cls |-> cls, min |-> min, greedy |-> greedy,
     alts |-> <<>>, to |-> 0, cap |-> cap]
Lit(alts, cap) ==
    [kind |-> "lit", cls |-> "", min |-> 0, greedy |-> TRUE,
     alts |-> FoldAll(alts), to |-> 0, cap |-> cap]
Opt(to) ==
    [kind |-> "opt", cls |-> "", min |-> 0, greedy |-> TRUE,
     alts |-> <<>>, to |-> to, cap |-> ""]

Spaces0 == Rep("space", 0, TRUE, "")    \* \s*
Spaces1 == Rep("space", 1, TRUE, "")    \* \s+
Gap == Rep("any", 0, FALSE, "")         \* .*?
Digits(cap) == Rep("digit", 1, TRUE, cap)   \* (?P<cap>\d+)

CARD_RE == <<
    Lit(<< <<80, 108, 97, 110, 111>>, <<>> >>, "prefix"),  \* (?P<prefix>Plano)?
    Spaces0,
    Rep("any", 1, FALSE, "proyecto"),                   \* (?P<proyecto>.+?)
    Spaces0,
    Digits("unidades"),
    Spaces1,
    Lit(<< <<117, 110, 105, 100, 97, 100>> >>, ""),     \* unidad
    Lit(<< <<101, 115>>, <<>> >>, ""),                  \* (?:es)?
    Spaces1,
    Lit(<< <<100, 105, 115, 112, 111, 110, 105, 98, 108, 101>> >>, ""),
                                                        \* disponible
    Lit(<< <<115>>, <<>> >>, ""),                       \* (?:s)?
    Spaces0,
    Gap,
    Lit(<< <<68, 101, 115, 100, 101>> >>, ""),          \* Desde
    Spaces0,
    Lit(<< <<83, 47>>, <<85, 83, 36>> >>, "moneda"),    \* (?P<moneda>S\/|US\$)
    Spaces0,
    Rep("num", 1, TRUE, "precio"),                      \* (?P<precio>[\d\.,]+)
    Spaces0,
    Gap,
    Lit(<< <<77, 111, 100, 101, 108, 111>> >>, ""),     \* Modelo
    Spaces0,
    Rep("word", 1, TRUE, "modelo"),          \* (?P<modelo>[A-Za-z0-9\-_]+)
    Spaces0,
    Gap,
    Rep("num", 1, TRUE, "area"),                        \* (?P<area>[\d\.,]+)
    Spaces0,
    Lit(<< <<109>> >>, ""),                             \* m
    Lit(<< <<178>>, <<50>>, <<194, 178>> >>, ""),       \* (?:²|2|Â²)
    Spaces0,
    Gap,
    Lit(<< <<80, 105, 115, 111>> >>, ""),               \* Piso
    Lit(<< <<115>>, <<>> >>, ""),                       \* (?:s)?
    Spaces0,
    Digits("piso_min"),
    Opt(41),                                            \* (?: ... )?
    Spaces0,
    Lit(<< <<97, 108>> >>, ""),                         \*   al
    Spaces0,
    Digits("piso_max"),
    Spaces0,
    Gap,
    Digits("dorms"),
    Spaces0,
    Lit(<< <<100, 111, 114, 109>> >>, ""),              \* dorm
    Lit(<< <<115>>, <<>> >>, ""),                       \* s?
    Spaces0,
    Gap,
    Digits("banos"),
    Spaces0,
    Lit(<< <<98, 97, 241>> >>, ""),                     \* bañ
    Lit(<< <<111>>, <<111, 115>>, <<195, 177, 111>>,
           <<195, 177, 111, 115>> >>, ""),              \* (?:o|os|Ã±o|Ã±os)
    Spaces0 >>

\* The groups of a match before any group has taken part.
NoGroups ==
    [prefix |-> <<0, 0>>, proyecto |-> <<0, 0>>, unidades |-> <<0, 0>>,
     moneda |-> <<0, 0>>, precio |-> <<0, 0>>, modelo |-> <<0, 0>>,
     area |-> <<0, 0>>, piso_min |-> <<0, 0>>, piso_max |-> <<0, 0>>,
     dorms |-> <<0, 0>>, banos |-> <<0, 0>>]

\* runs[cls][i]: the length of the longest run of class cls from index i.
RunsOf(cls, t) ==
    AsSeq([i \in 1..(Len(t) + 1) |-> RunLen(cls, t, i)], Len(t) + 1)

RunTable(t) ==
    [space |-> RunsOf("space", t), digit |-> RunsOf("digit", t),
     num |-> RunsOf("num", t), word |-> RunsOf("word", t),
     any |-> AsSeq([i \in 1..(Len(t) + 1) |-> Len(t) + 1 - i], Len(t) + 1)]

\* The folded literal lit stands at index i of the folded text ft.
LitAt(lit, ft, i) ==
    /\ i + Len(lit) - 1 <= Len(ft)
    /\ \A k \in 1..Len(lit) : ft[i + k - 1] = lit[k]

\* The groups of the match of the pattern from an element on, started at
\* index i: None when there is no such match.  Tn[e] is the same for the
\* elements after it started at index e.  A group is <<start, end>>, its
\* text is t[start .. end - 1], and <<0, 0>> is a group that took no part.
WithGroup(Tn, cap, i, e) ==
    IF cap = "" THEN Tn[e]
    ELSE Some([Val(Tn[e]) EXCEPT ![cap] = <<i, e>>])

\* A repetition of a character class: the backtracking matcher settles on
\* the longest end from which the rest matches when it is greedy, on the
\* shortest one when it is lazy.  run is the longest run of the class from
\* index i, Kn the set of indices from which the rest matches, and dense
\* only chooses which of the two sets to enumerate.
RepMatch(el, run, Tn, Kn, dense, i) ==
    LET lo == i + el.min
        hi == i + run
        ends == IF dense THEN {e \in lo..hi : Tn[e] # None}
                ELSE {e \in Kn : lo <= e /\ e <= hi}
    IN  IF ends = {} THEN None
        ELSE IF el.greedy THEN WithGroup(Tn, el.cap, i, SetMax(ends))
        ELSE WithGroup(Tn, el.cap, i, SetMin(ends))

\* A choice between literals: the first listed alternative that stands at
\* index i and after which the rest matches.  A group around an empty
\* alternative (x)? took no part.
LitMatch(el, ft, Tn, i) ==
    LET ok == {a \in 1..Len(el.alts) :
                  /\ LitAt(el.alts[a], ft, i)
                  /\ Tn[i + Len(el.alts[a])] # None}
    IN  IF ok = {} THEN None
        ELSE LET e == i + Len(el.alts[SetMin(ok)])
             IN  WithGroup(Tn, IF e = i THEN "" ELSE el.cap, i, e)

\* The indices at which the table T holds a match.
Matching(T) == {i \in 1..Len(T) : T[i] # None}

\* The table of element pc of the pattern re: its entry i is the match of
\* the elements pc.. started at index i.  Ts[k] is the table of element
\* pc + k.  An optional group is entered when the pattern matches through
\* it and skipped otherwise.
ElemTable(re, t, ft, runs, pc, Ts) ==
    LET el == re[pc]
        n == Len(t) + 1
        Tn == Ts[1]
        Kn == Matching(Tn)
        Tskip == Ts[el.to - pc]
        run == runs[el.cls]
        dense == 2 * Cardinality(Kn) > n
    IN  CASE el.kind = "opt" ->
               AsSeq([i \in 1..n |->
                        IF Tn[i] # None THEN Tn[i] ELSE Tskip[i]], n)
          [] el.kind = "lit" ->
               AsSeq([i \in 1..n |-> LitMatch(el, ft, Tn, i)], n)
          [] el.kind = "rep" ->
               AsSeq([i \in 1..n |->
                        RepMatch(el, run[i], Tn, Kn, dense, i)], n)

\* Tables adds the tables of the elements pc, pc - 1, .., 1 in front of Ts.
RECURSIVE Tables(_, _, _, _, _, _)
Tables(re, t, ft, runs, pc, Ts) ==
    IF pc = 0 \/ Len(Ts) = 0 THEN Ts
    ELSE Tables(re, t, ft, runs, pc - 1,
                <<ElemTable(re, t, ft, runs, pc, Ts)>> \o Ts)

\* re.search(t): None, or Some(groups) of the match that the backtracking
\* matcher finds first from the leftmost index where it finds one.
Search(re, t) ==
    LET n == Len(t) + 1
        end == AsSeq([i \in 1..n |-> Some(NoGroups)], n)
        T1 == Tables(re, t, FoldSeq(t), RunTable(t), Len(re), <<end>>)[1]
    IN  IF Matching(T1) = {} THEN None
        ELSE T1[SetMin(Matching(T1))]

\* m.group(g): the text of group g of the match m of t ("" stands for a
\* group that took no part, as the code tests groups for truth only).
Group(t, m, g) == SubSeq(t, m[g][1], m[g][2] - 1)

(***************************************************************************)
(* nexo/parser.py: parse_card_text                                         *)
(***************************************************************************)
\* int(s) if s else None
IntOrNone(s) == IF s = <<>> THEN None ELSE Some(DigitsValue(s))

\* DegradedTipologia without the best-effort numbers.
DegradedTipologia_no_fallback(raw) ==
    [modelo |-> <<>>,
     area_m2 |-> None,
     precio_desde |-> None,
     moneda |-> None,
     unidades_disponibles |-> None,
     piso_min |-> None,
     piso_max |-> None,
     dormitorios |-> None,
     banos |-> None,
     raw |-> raw,
     parse_ok |-> FALSE]

\* The Tipologia of a text that the card grammar does not match.
DegradedTipologia(raw) ==
    [modelo |-> <<>>,
     area_m2 |-> parse_float(Some(raw)),
     precio_desde |-> parse_money_to_float(Some(raw)),
     moneda |-> None,
     unidades_disponibles |-> None,
     piso_min |-> None,
     piso_max |-> None,
     dormitorios |-> None,
     banos |-> None,
     raw |-> raw,
     parse_ok |-> FALSE]

\* PisoMax that never reads the "al <max>" clause.
PisoMax_no_clause(s, piso_min) == piso_min

\* int(g["piso_max"]) if g.get("piso_max") else piso_min
PisoMax(s, piso_min) ==
    IF s # <<>> THEN Some(DigitsValue(s)) ELSE piso_min

\* The Tipologia of a text from the groups m of its match.
MatchedTipologia(raw, m) ==
    LET g(name) == Group(raw, m, name)
        moneda == g("moneda")
        precio == parse_money_to_float(
                      Some(moneda \o <<32>> \o g("precio")))
        area == parse_float(Some(g("area")))
        piso_min == IntOrNone(g("piso_min"))
        piso_max == PisoMax(g("piso_max"), piso_min)
    IN  [modelo |-> g("modelo"),
         area_m2 |-> area,
         precio_desde |-> precio,
         moneda |-> Some(moneda),
         unidades_disponibles |-> IntOrNone(g("unidades")),
         piso_min |-> piso_min,
         piso_max |-> piso_max,
         dormitorios |-> IntOrNone(g("dorms")),
         banos |-> IntOrNone(g("banos")),
         raw |-> raw,
         parse_ok |-> TRUE]

\* parse_card_text that keeps the text as it was given.
parse_card_text_raw_input(txt) ==
    LET raw == fix_mojibake(clean_text(txt))
        m == Search(CARD_RE, raw)
        t == IF m = None THEN DegradedTipologia(raw)
             ELSE MatchedTipologia(raw, Val(m))
    IN  [t EXCEPT !.raw = IF txt = None THEN <<>> ELSE Val(txt)]

\* parse_card_text(txt): the Tipologia of one card text.
parse_card_text(txt) ==
    LET raw == fix_mojibake(clean_text(txt))
        m == Search(CARD_RE, raw)
    IN  IF m = None THEN DegradedTipologia(raw)
        ELSE MatchedTipologia(raw, Val(m))

(***************************************************************************)
(* Inputs.  A card text is what the site shows for one apartment model:    *)
(* the project, the units count, the price, the model code, the area, the  *)
(* floors and the rooms, joined with or without a space between them.      *)
(***************************************************************************)
\* "PlanoTorre Nápoles"
HeadFull ==
    <<80, 108, 97, 110, 111, 84, 111, 114, 114, 101, 32, 78, 225, 112,
    111, 108, 101, 115>>

\* "Plano Torre Nápoles "
HeadSpaced ==
    <<80, 108, 97, 110, 111, 32, 84, 111, 114, 114, 101, 32, 78, 225, 112,
    111, 108, 101, 115, 32>>

\* "Plano"
HeadPlano ==
    <<80, 108, 97, 110, 111>>

\* "1 unidad disponible"
Units1 ==
    <<49, 32, 117, 110, 105, 100, 97, 100, 32, 100, 105, 115, 112, 111,
    110, 105, 98, 108, 101>>

\* "27 unidades disponibles"
Units27 ==
    <<50, 55, 32, 117, 110, 105, 100, 97, 100, 101, 115, 32, 100, 105,
    115, 112, 111, 110, 105, 98, 108, 101, 115>>

\* "Desde S/ 327,550"
PriceSoles ==
    <<68, 101, 115, 100, 101, 32, 83, 47, 32, 51, 50, 55, 44, 53, 53, 48>>

\* "DesdeUS$ 120.500"
PriceDollars ==
    <<68, 101, 115, 100, 101, 85, 83, 36, 32, 49, 50, 48, 46, 53, 48, 48>>

\* "desde s/ ,"
PriceNoDigit ==
    <<100, 101, 115, 100, 101, 32, 115, 47, 32, 44>>

\* "desde us$ 120,500"
PriceLower ==
    <<100, 101, 115, 100, 101, 32, 117, 115, 36, 32, 49, 50, 48, 44, 53, 48, 48>>

\* "Modelo AX01"
ModelAX01 ==
    <<77, 111, 100, 101, 108, 111, 32, 65, 88, 48, 49>>

\* "Modelo A-209"
ModelA209 ==
    <<77, 111, 100, 101, 108, 111, 32, 65, 45, 50, 48, 57>>

\* "57.04 m²"
Area5704 ==
    <<53, 55, 46, 48, 52, 32, 109, 178>>

\* "44,63 m2"
Area4463 ==
    <<52, 52, 44, 54, 51, 32, 109, 50>>

\* ". m²"
AreaNoDigit ==
    <<46, 32, 109, 178>>

\* "50 m 2"
AreaSpacedUnit ==
    <<53, 48, 32, 109, 32, 50>>

\* "57.04 mÂ²"
AreaMojibake ==
    <<53, 55, 46, 48, 52, 32, 109, 194, 178>>

\* "Piso 2"
Floor2 ==
    <<80, 105, 115, 111, 32, 50>>

\* "Pisos 2 al 28"
Floors2to28 ==
    <<80, 105, 115, 111, 115, 32, 50, 32, 97, 108, 32, 50, 56>>

\* "Pisos 5 al 2"
Floors5to2 ==
    <<80, 105, 115, 111, 115, 32, 53, 32, 97, 108, 32, 50>>

\* "1 dorms.1 baño"
Rooms1 ==
    <<49, 32, 100, 111, 114, 109, 115, 46, 49, 32, 98, 97, 241, 111>>

\* "2 dorms.2 baños"
Rooms2 ==
    <<50, 32, 100, 111, 114, 109, 115, 46, 50, 32, 98, 97, 241, 111, 115>>

\* "2 dorm 2 baÃ±os €"
Rooms2Mojibake ==
    <<50, 32, 100, 111, 114, 109, 32, 50, 32, 98, 97, 195, 177, 111, 115,
    32, 8364>>

\* "PlanoTorre Nápoles27 unidades disponiblesDesde S/ 327,550Modelo AX0157.04 m²Pisos 2 al 282 dorms.2 baños"
T1 ==
    <<80, 108, 97, 110, 111, 84, 111, 114, 114, 101, 32, 78, 225, 112,
    111, 108, 101, 115, 50, 55, 32, 117, 110, 105, 100, 97, 100,
    101, 115, 32, 100, 105, 115, 112, 111, 110, 105, 98, 108, 101,
    115, 68, 101, 115, 100, 101, 32, 83, 47, 32, 51, 50, 55, 44, 53,
    53, 48, 77, 111, 100, 101, 108, 111, 32, 65, 88, 48, 49, 53, 55,
    46, 48, 52, 32, 109, 178, 80, 105, 115, 111, 115, 32, 50, 32,
    97, 108, 32, 50, 56, 50, 32, 100, 111, 114, 109, 115, 46, 50,
    32, 98, 97, 241, 111, 115>>

\* "PlanoTorre NÃ¡poles27 unidades disponiblesDesdeS/ 327,550Modelo AX0157.04 mÂ²Pisos 2 al  282 dorms.2 baÃ±os"
T1Mojibake ==
    <<80, 108, 97, 110, 111, 84, 111, 114, 114, 101, 32, 78, 195, 161,
    112, 111, 108, 101, 115, 50, 55, 32, 117, 110, 105, 100, 97,
    100, 101, 115, 32, 100, 105, 115, 112, 111, 110, 105, 98, 108,
    101, 115, 68, 101, 115, 100, 101, 83, 47, 32, 51, 50, 55, 44,
    53, 53, 48, 77, 111, 100, 101, 108, 111, 32, 65, 88, 48, 49, 53,
    55, 46, 48, 52, 32, 109, 194, 178, 80, 105, 115, 111, 115, 32,
    50, 32, 97, 108, 32, 32, 50, 56, 50, 32, 100, 111, 114, 109,
    115, 46, 50, 32, 98, 97, 195, 177, 111, 115>>

\* "1 unidad disponibleDesde S/ 271,441Modelo A-20944.63 m²Piso 21 dorms.1 baño"
T2 ==
    <<49, 32, 117, 110, 105, 100, 97, 100, 32, 100, 105, 115, 112, 111,
    110, 105, 98, 108, 101, 68, 101, 115, 100, 101, 32, 83, 47, 32,
    50, 55, 49, 44, 52, 52, 49, 77, 111, 100, 101, 108, 111, 32, 65,
    45, 50, 48, 57, 52, 52, 46, 54, 51, 32, 109, 178, 80, 105, 115,
    111, 32, 50, 49, 32, 100, 111, 114, 109, 115, 46, 49, 32, 98,
    97, 241, 111>>

\* "PlanoTorre NÃ¡poles1 unidad disponibleDesdeS/ 271,441Modelo A-20944.63 mÂ²Piso 21 dorms.1 baÃ±o"
T2Mojibake ==
    <<80, 108, 97, 110, 111, 84, 111, 114, 114, 101, 32, 78, 195, 161,
    112, 111, 108, 101, 115, 49, 32, 117, 110, 105, 100, 97, 100,
    32, 100, 105, 115, 112, 111, 110, 105, 98, 108, 101, 68, 101,
    115, 100, 101, 83, 47, 32, 50, 55, 49, 44, 52, 52, 49, 77, 111,
    100, 101, 108, 111, 32, 65, 45, 50, 48, 57, 52, 52, 46, 54, 51,
    32, 109, 194, 178, 80, 105, 115, 111, 32, 50, 49, 32, 100, 111,
    114, 109, 115, 46, 49, 32, 98, 97, 195, 177, 111>>

Heads == {HeadFull, HeadSpaced, HeadPlano, <<>>}
Units == {Units1, Units27}
Prices == {PriceSoles, PriceDollars, PriceNoDigit, PriceLower}
Models == {ModelAX01, ModelA209}
Areas == {Area5704, Area4463, AreaNoDigit, AreaSpacedUnit, AreaMojibake}
Floors == {Floor2, Floors2to28, Floors5to2}
Rooms == {Rooms1, Rooms2, Rooms2Mojibake}
Joins == {<<>>, <<32>>}

\* The card text of the fields c, joined by c[1].
Card(c) ==
    c[2] \o c[3] \o c[1] \o c[4] \o c[1] \o c[5] \o c[1] \o c[6] \o c[1]
         \o c[7] \o c[1] \o c[8]

\* The cards that vary the head, the units and the floors, those that vary
\* the price, the area and the floors, and those that vary the model, the
\* area and the rooms.
CardFields ==
    (Joins \X Heads \X Units \X {PriceSoles} \X {ModelAX01} \X {Area5704}
           \X Floors \X {Rooms1})
    \cup
    (Joins \X {HeadFull} \X {Units27} \X Prices \X {ModelAX01} \X Areas
           \X Floors \X {Rooms2})
    \cup
    (Joins \X {HeadFull} \X {Units1} \X {PriceSoles} \X Models \X Areas
           \X {Floor2} \X Rooms)

CardTexts == {Card(c) : c \in CardFields}

\* The strings of length at most n over the characters of the set A.
RECURSIVE StringsUpTo(_, _)
StringsUpTo(A, n) ==
    IF n = 0 THEN {<<>>}
    ELSE LET S == StringsUpTo(A, n - 1)
         IN  S \cup {Append(x, a) : x \in {y \in S : Len(y) = n - 1}, a \in A}

MaxCardLen == 3
MaxNumLen == 4
MaxTextLen == 3

\* '1', ',', ' ', tab, 'm', 'Ã', '¡'
CardChars == {49, 44, 32, 9, 109, 195, 161}
\* '1', '2', ',', '.', ' ', 'x'
NumChars == {49, 50, 44, 46, 32, 120}
\* 'A', ' ', NEL, 'Ã', '¡', 'Â', 'â', U+0082, '¬', '€'
TextChars == {65, 32, 133, 195, 161, 194, 226, 130, 172, 8364}

CardInputs ==
    {None} \cup {Some(t) : t \in {T1, T1Mojibake, T2, T2Mojibake}
                              \cup CardTexts
                              \cup StringsUpTo(CardChars, MaxCardLen)}

\* "Desde S/ 327,550"
MoneyExample == <<68, 101, 115, 100, 101, 32, 83, 47, 32, 51, 50, 55, 44, 53, 53, 48>>
\* "US$ 120,500"
MoneyDollars == <<85, 83, 36, 32, 49, 50, 48, 44, 53, 48, 48>>
\* "57.04 m²"
FloatPeriod == <<53, 55, 46, 48, 52, 32, 109, 178>>
\* "44,63 m²"
FloatComma == <<52, 52, 44, 54, 51, 32, 109, 178>>
\* "1,234.5 m2"
FloatThousands == <<49, 44, 50, 51, 52, 46, 53, 32, 109, 50>>
\* "Nápoles"
Napoles == <<78, 225, 112, 111, 108, 101, 115>>
\* "NÃ¡poles"
NapolesMojibake == <<78, 195, 161, 112, 111, 108, 101, 115>>
\* the bytes of the euro sign read as Latin-1
EuroMojibake == <<226, 130, 172>>
\* the four bytes of U+1F3E0 read as Latin-1
EmojiMojibake == <<240, 159, 143, 160>>
\* the overlong bytes C0 80 read as Latin-1
OverlongMojibake == <<192, 128>>
\* the bytes ED A0 80 of a surrogate read as Latin-1
SurrogateMojibake == <<237, 160, 128>>
\* a name between and around runs of whitespace
Spaced == <<32, 32, 84, 111, 114, 114, 101, 32, 9, 10, 32, 78, 225, 112, 111, 108, 101, 115, 160, 32>>

NumInputs ==
    {None} \cup {Some(t) : t \in {MoneyExample, MoneyDollars, FloatPeriod,
                                  FloatComma, FloatThousands}
                              \cup StringsUpTo(NumChars, MaxNumLen)}

TextInputs ==
    {None} \cup {Some(t) : t \in {Napoles, NapolesMojibake, EuroMojibake,
                                  EmojiMojibake, OverlongMojibake,
                                  SurrogateMojibake, Spaced, T1Mojibake}
                              \cup StringsUpTo(TextChars, MaxTextLen)}

(***************************************************************************)
(* The calls.  A behaviour is one call: the argument is drawn, then the    *)
(* function returns.                                                       *)
(***************************************************************************)
Call(name, value) ==
    /\ fn = "none"
    /\ fn' = name
    /\ ret' = Some(value)
    /\ UNCHANGED <<arg, registry, main, now>>

InitWith(inputs) ==
    /\ fn = "none"
    /\ arg \in inputs
    /\ ret = None
    /\ NoBatch

Call_parse_card_text == Call("parse_card_text", parse_card_text(arg))

Init == InitWith(CardInputs)
Next == Call_parse_card_text
Spec == Init /\ [][Next]_vars

(***************************************************************************)
(* Properties of parse_card_text, checked under Spec.                      *)
(***************************************************************************)
Returned(name) == fn = name
Result == Val(ret)

\* The normalized text of the argument.
Normalized == fix_mojibake(clean_text(arg))

\* "AX01"
Code_AX01 == <<65, 88, 48, 49>>
\* "A-209"
Code_A209 == <<65, 45, 50, 48, 57>>
\* "S/"
Soles == <<83, 47>>
\* "US$"
Dollars == <<85, 83, 36>>

\* C1: parse_card_text of the card "PlanoTorre Napoles27 unidades
\* disponiblesDesde S/ 327,550Modelo AX0157.04 m2Pisos 2 al 282 dorms.2
\* banos" (as written with its accents and as its mojibake form) returns
\* parse_ok, model code "AX01", 27 units, price 327550.0 in "S/", area 57.04,
\* floors 2 to 28, 2 bedrooms and 2 bathrooms.
C1_FullCard ==
    Returned("parse_card_text") /\ arg \in {Some(T1), Some(T1Mojibake)}
    => /\ Result.parse_ok
       /\ Result.modelo = Code_AX01
       /\ Result.unidades_disponibles = Some(27)
       /\ Result.precio_desde = Some(<<327550, 0>>)
       /\ Result.moneda = Some(Soles)
       /\ Result.area_m2 = Some(<<5704, 2>>)
       /\ Result.piso_min = Some(2)
       /\ Result.piso_max = Some(28)
       /\ Result.dormitorios = Some(2)
       /\ Result.banos = Some(2)

\* C2: parse_card_text returns a record for every text, the absent and the
\* empty one included, and when the grammar does not match the normalized
\* text the record is the degraded one: parse_ok false, model code "", area
\* and price the parse_float and parse_money_to_float of the whole
\* normalized text, and currency, units, floors, bedrooms and bathrooms
\* unset.
C2_Degraded ==
    Returned("parse_card_text")
    => /\ ret # None
       /\ Search(CARD_RE, Normalized) = None
          => /\ ~Result.parse_ok
             /\ Result.area_m2 = parse_float(Some(Normalized))
             /\ Result.precio_desde = parse_money_to_float(Some(Normalized))
       /\ ~Result.parse_ok
          => /\ Result.modelo = <<>>
             /\ Result.moneda = None
             /\ Result.unidades_disponibles = None
             /\ Result.piso_min = None
             /\ Result.piso_max = None
             /\ Result.dormitorios = None
             /\ Result.banos = None

\* A degraded record that carries both fallback numbers.
C2_Witness ==
    /\ Returned("parse_card_text")
    /\ ~Result.parse_ok
    /\ Result.area_m2 # None
    /\ Result.precio_desde # None

\* C3: a record with parse_ok has every field populated: a non-empty model
\* code, and area, price, currency, units, floors, bedrooms and bathrooms
\* all set.
C3_AllPopulated ==
    Returned("parse_card_text") /\ Result.parse_ok
    => /\ Result.modelo # <<>>
       /\ Result.area_m2 # None
       /\ Result.precio_desde # None
       /\ Result.moneda # None
       /\ Result.unidades_disponibles # None
       /\ Result.piso_min # None
       /\ Result.piso_max # None
       /\ Result.dormitorios # None
       /\ Result.banos # None

\* C4: parse_card_text of the card "1 unidad disponibleDesde S/
\* 271,441Modelo A-20944.63 m2Piso 21 dorms.1 bano", which has no project
\* name before the units, returns model code "A-209", 1 unit, floor 2 as
\* both floors, 1 bedroom and 1 bathroom.
C4_NoProjectCard ==
    Returned("parse_card_text") /\ arg = Some(T2)
    => /\ Result.modelo = Code_A209
       /\ Result.unidades_disponibles = Some(1)
       /\ Result.piso_min = Some(2)
       /\ Result.piso_max = Some(2)
       /\ Result.dormitorios = Some(1)
       /\ Result.banos = Some(1)

\* C5: parse_card_text of the mojibake single-floor card of the test returns
\* parse_ok, model code "A-209", 1 unit and floor_min 2 or 21: the model
\* code ends where the area number begins.
C5_MojibakeCard ==
    Returned("parse_card_text") /\ arg = Some(T2Mojibake)
    => /\ Result.parse_ok
       /\ Result.modelo = Code_A209
       /\ Result.unidades_disponibles = Some(1)
       /\ Result.piso_min \in {Some(2), Some(21)}

\* The text of the "al <max>" clause of the matched card ("" without one).
FloorClause == Group(Normalized, Val(Search(CARD_RE, Normalized)), "piso_max")

\* C6 as claimed: on every fully matched card, an explicit range "Piso(s)
\* <min> al <max>" gives floor_max >= floor_min and a single floor gives
\* floor_max = floor_min.
C6_FloorOrder ==
    Returned("parse_card_text") /\ Result.parse_ok
    => IF FloorClause # <<>>
       THEN Val(Result.piso_max) >= Val(Result.piso_min)
       ELSE Result.piso_max = Result.piso_min

\* C6 as amended: on every fully matched card floor_min is set; a single
\* floor gives floor_max = floor_min, and an explicit range gives as
\* floor_max the number written after "al", whatever its order with
\* floor_min.
C6_FloorClause ==
    Returned("parse_card_text") /\ Result.parse_ok
    => /\ Result.piso_min # None
       /\ IF FloorClause # <<>>
          THEN Result.piso_max = Some(DigitsValue(FloorClause))
          ELSE Result.piso_max = Result.piso_min

\* A matched card whose range runs downwards.
C6_Witness ==
    /\ Returned("parse_card_text")
    /\ Result.parse_ok
    /\ Val(Result.piso_max) < Val(Result.piso_min)

HasNonSpace(t) == \E i \in 1..Len(t) : ~IsSpace(t[i])

\* C7 as claimed: the record's raw text is the normalized input, on success
\* and on failure, and is not empty when the input was not empty.
C7_RawKept ==
    Returned("parse_card_text")
    => /\ Result.raw = Normalized
       /\ arg # None /\ Val(arg) # <<>> => Result.raw # <<>>

\* C7 as amended: the record's raw text is the normalized input, on success
\* and on failure, and is not empty when the input has a character that is
\* not whitespace.
C7_RawNormalized ==
    Returned("parse_card_text")
    => /\ Result.raw = Normalized
       /\ arg # None /\ HasNonSpace(Val(arg)) => Result.raw # <<>>

\* A degraded record whose raw text is the input without its surrounding
\* whitespace.
C7_Witness ==
    /\ Returned("parse_card_text")
    /\ ~Result.parse_ok
    /\ Result.raw # <<>>
    /\ Result.raw # Val(arg)

Call_parse_money_to_float ==
    Call("parse_money_to_float", parse_money_to_float(arg))

Call_parse_float == Call("parse_float", parse_float(arg))

InitNum == InitWith(NumInputs)
NextNum == Call_parse_money_to_float \/ Call_parse_float
SpecNum == InitNum /\ [][NextNum]_vars

Call_clean_text == Call("clean_text", clean_text(arg))

Call_fix_mojibake ==
    /\ arg # None
    /\ Call("fix_mojibake", fix_mojibake(Val(arg)))

InitText == InitWith(TextInputs)
NextText == Call_clean_text \/ Call_fix_mojibake
SpecText == InitText /\ [][NextText]_vars

(***************************************************************************)
(* Properties of the numeric parsers, checked under SpecNum.               *)
(***************************************************************************)
\* The digits ds are the decimal digits of the number v.
IsValueOf(v, ds) ==
    /\ v < Pow10(Len(ds))
    /\ \A i \in 1..Len(ds) :
          (v \div Pow10(Len(ds) - i)) % 10 = DigitVal(ds[i])

\* The index of the first digit of the normalized text.
RunStart ==
    CHOOSE p \in 1..Len(Normalized) :
        IsDigit(Normalized[p]) /\ \A j \in 1..(p - 1) : ~IsDigit(Normalized[j])

\* The last index of the longest run of characters of class cls that
\* starts at index p of the normalized text (p - 1 for the empty run).
RunEnd(cls, p) ==
    CHOOSE q \in (p - 1)..Len(Normalized) :
        /\ \A j \in p..q : InClass(cls, Normalized[j])
        /\ q = Len(Normalized) \/ ~InClass(cls, Normalized[q + 1])

\* C8: parse_money_to_float returns none for an absent or empty text and for
\* a text without a digit; otherwise it returns the integer whose digits are
\* the digits of the first run digit (digit | . | ,)* of the normalized
\* text, and so 327550.0 for "Desde S/ 327,550".
C8_Money ==
    Returned("parse_money_to_float")
    => /\ IF arg = None \/ ~\E i \in 1..Len(Normalized) : IsDigit(Normalized[i])
          THEN Result = None
          ELSE LET run == SubSeq(Normalized, RunStart,
                                 RunEnd("num", RunStart))
               IN  /\ Result # None
                   /\ Val(Result)[2] = 0
                   /\ IsValueOf(Val(Result)[1], SelectSeq(run, IsDigit))
       /\ arg = Some(MoneyExample) => Result = Some(<<327550, 0>>)

\* The price of the documented example.
C8_Witness ==
    /\ Returned("parse_money_to_float")
    /\ arg = Some(MoneyExample)
    /\ Result = Some(<<327550, 0>>)

\* C9: parse_float returns none when the normalized text has no digit;
\* otherwise it takes the first run digit+ (. | ,)? digit* and returns the
\* number whose integer part is the digits before the separator and whose
\* fraction is the digits after it, the separator being a period or, in a
\* run without a period, a comma; so 57.04 for "57.04 m2" and 44.63 for
\* "44,63 m2".
C9_Float ==
    Returned("parse_float")
    => /\ IF arg = None \/ ~\E i \in 1..Len(Normalized) : IsDigit(Normalized[i])
          THEN Result = None
          ELSE LET t == Normalized
                   q == RunEnd("digit", RunStart)
                   sep == q < Len(t) /\ t[q + 1] \in {44, 46}
                   r == IF sep THEN RunEnd("digit", q + 2) ELSE q
                   whole == SubSeq(t, RunStart, q)
                   frac == IF sep THEN SubSeq(t, q + 2, r) ELSE <<>>
               IN  /\ Result # None
                   /\ LET m == Val(Result)[1]
                          e == Val(Result)[2]
                      IN  /\ e <= Len(frac)
                          /\ e = 0 \/ m % 10 # 0
                          /\ IsValueOf(m * Pow10(Len(frac) - e),
                                       whole \o frac)
       /\ arg = Some(FloatPeriod) => Result = Some(<<5704, 2>>)
       /\ arg = Some(FloatComma) => Result = Some(<<4463, 2>>)

\* The area written with a comma as its decimal separator.
C9_Witness ==
    /\ Returned("parse_float")
    /\ arg = Some(FloatComma)
    /\ Result = Some(<<4463, 2>>)

(***************************************************************************)
(* Properties of the text normalizers, checked under SpecText.             *)
(***************************************************************************)
\* str.encode("utf-8") of one code point.
Utf8Encode(c) ==
    IF c < 128 THEN <<c>>
    ELSE IF c < 2048 THEN <<192 + (c \div 64), 128 + (c % 64)>>
    ELSE IF c < 65536
    THEN <<224 + (c \div 4096), 128 + ((c \div 64) % 64), 128 + (c % 64)>>
    ELSE <<240 + (c \div 262144), 128 + ((c \div 4096) % 64),
           128 + ((c \div 64) % 64), 128 + (c % 64)>>

\* The bytes bs are the UTF-8 encoding of the string r.
IsUtf8Of(bs, r) ==
    LET n == Len(r)
        enc == AsSeq([i \in 1..n |-> Utf8Encode(r[i])], n)
        before(i) == {j \in 1..(i - 1) : TRUE}
        width(k, i) == k * Cardinality({j \in before(i) : Len(enc[j]) = k})
        off(i) == width(1, i) + width(2, i) + width(3, i) + width(4, i)
    IN  /\ off(n + 1) = Len(bs)
        /\ \A i \in 1..n :
              /\ r[i] \notin 55296..57343
              /\ r[i] <= 1114111
              /\ SubSeq(bs, off(i) + 1, off(i) + Len(enc[i])) = enc[i]

\* C10: fix_mojibake returns a string for every string s: the string whose
\* UTF-8 encoding is the Latin-1 encoding of s when s has a Latin-1 encoding
\* and that encoding is well-formed UTF-8, and s itself otherwise; a plain
\* ASCII s is returned unchanged.
C10_FixMojibake ==
    Returned("fix_mojibake")
    => LET s == Val(arg)
       IN  /\ ret # None
           /\ IF Latin1Encodable(s) /\ Utf8Valid(s)
              THEN IsUtf8Of(s, Result)
              ELSE Result = s
           /\ (\A i \in 1..Len(s) : s[i] < 128) => Result = s

\* The mojibake of the documented example is repaired.
C10_Witness ==
    /\ Returned("fix_mojibake")
    /\ arg = Some(NapolesMojibake)
    /\ Result = Napoles

\* The k bytes from index i of bs are the UTF-8 encoding of one scalar
\* value.
EncodedAt(bs, i, k) ==
    /\ i + k - 1 <= Len(bs)
    /\ LET w == SubSeq(bs, i, i + k - 1)
           c == CASE k = 1 -> w[1]
                  [] k = 2 -> (w[1] % 32) * 64 + (w[2] % 64)
                  [] k = 3 -> (w[1] % 16) * 4096 + (w[2] % 64) * 64
                              + (w[3] % 64)
                  [] k = 4 -> (w[1] % 8) * 262144 + (w[2] % 64) * 4096
                              + (w[3] % 64) * 64 + (w[4] % 64)
       IN  /\ c \notin 55296..57343
           /\ c <= 1114111
           /\ Utf8Encode(c) = w

\* s is what reading the UTF-8 encoding of some string as Latin-1 gives:
\* every character is a byte, and the bytes split into encodings of scalar
\* values, each running up to the next byte that is not a continuation.
IsMojibake(s) ==
    LET lead(i) == s[i] \notin 128..191
    IN  /\ \A i \in 1..Len(s) : s[i] <= 255
        /\ s # <<>> => lead(1)
        /\ \A i \in 1..Len(s) :
              lead(i) => \E k \in 1..4 :
                            /\ EncodedAt(s, i, k)
                            /\ i + k = Len(s) + 1 \/ lead(i + k)

\* C11: fix_mojibake returns unchanged every text that is not the Latin-1
\* reading of UTF-8 bytes, and applying it once more to its result leaves
\* that text unchanged again.
C11_CorrectTextKept ==
    Returned("fix_mojibake") /\ ~IsMojibake(Val(arg))
    => /\ Result = Val(arg)
       /\ fix_mojibake(Result) = Val(arg)

\* A correctly written name with an accent goes through unchanged.
C11_Witness ==
    /\ Returned("fix_mojibake")
    /\ arg = Some(Napoles)
    /\ ~IsMojibake(Napoles)
    /\ Result = Napoles

NonSpace(c) == ~IsSpace(c)

\* The indices of the characters of t that are not whitespace, in order.
InkOf(t) ==
    LET ink(i) == NonSpace(t[i])
    IN  SelectSeq(Indices(Len(t)), ink)

\* C19: clean_text returns the text with every run of whitespace replaced
\* by one space and no space at either end: the result has the
\* non-whitespace characters of the input in their order, a single space
\* between two of them exactly where the input has whitespace between them,
\* and nothing else; it is empty for an empty or absent input, and
\* cleaning the result again changes nothing.
C19_CleanText ==
    Returned("clean_text")
    => LET t == IF arg = None THEN <<>> ELSE Val(arg)
           r == Result
           pt == InkOf(t)
           pr == InkOf(r)
       IN  /\ \A i \in 1..Len(r) : IsSpace(r[i]) => r[i] = 32
           /\ r # <<>> => NonSpace(r[1]) /\ NonSpace(r[Len(r)])
           /\ Len(pr) = Len(pt)
           /\ \A j \in 1..Len(pt) : r[pr[j]] = t[pt[j]]
           /\ \A j \in 1..(Len(pt) - 1) :
                 pr[j + 1] - pr[j] = (IF pt[j + 1] - pt[j] > 1 THEN 2 ELSE 1)
           /\ t = <<>> => r = <<>>
           /\ clean_text(Some(r)) = r

\* A name between and around runs of whitespace is cleaned.
C19_Witness ==
    /\ Returned("clean_text")
    /\ arg = Some(Spaced)
    /\ Len(Result) < Len(Spaced)
    /\ \E i \in 1..Len(Result) : Result[i] = 32

\* The first and the end index of the units group of the matched card.
UnitsSpan == Val(Search(CARD_RE, Normalized))["unidades"]

\* C20: on every fully matched card units_available is the value of the
\* whole number written directly before "unidad(es) disponible(s)": the
\* digits it is read from are not preceded by another digit, also when only
\* the "Plano" marker, or nothing, stands before the number.
C20_WholeUnits ==
    Returned("parse_card_text") /\ Result.parse_ok
    => /\ UnitsSpan[1] = 1 \/ ~IsDigit(Normalized[UnitsSpan[1] - 1])
       /\ Result.unidades_disponibles # None
       /\ IsValueOf(Val(Result.unidades_disponibles),
                    SubSeq(Normalized, UnitsSpan[1], UnitsSpan[2] - 1))

(***************************************************************************)
(* nexo/extract.py: extract_card_texts                                     *)
(*                                                                         *)
(* A page is the document that BeautifulSoup builds from the markup: its   *)
(* elements in document order, each with its tag, its classes, its         *)
(* data-testid attribute ("" without one), the text written directly in it *)
(* (before its children) and the index of its parent (0 at the top).       *)
(***************************************************************************)
Element(tag, class, testid, own) ==
    [tag |-> tag, class |-> class, testid |-> testid, own |-> own]

\* Element a of the page is a proper ancestor of element i.
RECURSIVE IsAncestor(_, _, _)
IsAncestor(page, a, i) ==
    LET up == page.parent[i]
    IN  up # 0 /\ (up = a \/ IsAncestor(page, a, up))

\* str.strip()
Strip(t) ==
    LET ink == {i \in 1..Len(t) : ~IsSpace(t[i])}
    IN  IF ink = {} THEN <<>> ELSE SubSeq(t, SetMin(ink), SetMax(ink))

\* " ".join(ss)
RECURSIVE JoinSpace(_)
JoinSpace(ss) ==
    IF ss = <<>> THEN <<>>
    ELSE IF Len(ss) = 1 THEN ss[1]
    ELSE ss[1] \o <<32>> \o JoinSpace(Tail(ss))

\* " ".join(tag.stripped_strings) and tag.get_text(" ", strip=True): the
\* stripped texts of the element and of its descendants, in document order,
\* without the empty ones.  i = 0 stands for the whole document.
TextOf(page, i) ==
    LET n == Len(page.nodes)
        inside(j) == /\ i = 0 \/ j = i \/ IsAncestor(page, i, j)
                     /\ Strip(page.nodes[j].own) # <<>>
        js == SelectSeq(Indices(n), inside)
    IN  JoinSpace(AsSeq([k \in 1..Len(js) |-> Strip(page.nodes[js[k]].own)],
                        Len(js)))

\* The CSS selectors that the code uses: ".c", "t", "[data-testid='v']" and
\* "t u" (an element u below an element t).
ByClass(c) == [kind |-> "class", name |-> c, below |-> ""]
ByTag(t) == [kind |-> "tag", name |-> t, below |-> ""]
ByTestId(v) == [kind |-> "testid", name |-> v, below |-> ""]
ByTagBelow(t, u) == [kind |-> "tag", name |-> u, below |-> t]

Matches(page, sel, i) ==
    LET e == page.nodes[i]
    IN  /\ CASE sel.kind = "class" -> sel.name \in e.class
              [] sel.kind = "tag" -> e.tag = sel.name
              [] sel.kind = "testid" -> e.testid = sel.name
        /\ sel.below # ""
           => \E a \in 1..Len(page.nodes) :
                 page.nodes[a].tag = sel.below /\ IsAncestor(page, a, i)

\* soup.select(sel): the matching elements in document order.
select(page, sel) ==
    LET hit(i) == Matches(page, sel, i)
    IN  SelectSeq(Indices(Len(page.nodes)), hit)

\* soup.select_one(sel): the first matching element, or None.
select_one(page, sel) ==
    IF select(page, sel) = <<>> THEN None ELSE Some(select(page, sel)[1])

\* sub in t
Contains(t, sub) ==
    \E i \in 1..(Len(t) - Len(sub) + 1) :
        SubSeq(t, i, i + Len(sub) - 1) = sub

\* The selectors of the cards, in the order the code tries them.
selectors ==
    <<ByClass("modelo-card"), ByClass("model-card"), ByTestId("model-card"),
      ByClass("card-modelo"), ByClass("card")>>

\* "Modelo"
Kw_Modelo == <<77, 111, 100, 101, 108, 111>>
\* "Desde"
Kw_Desde == <<68, 101, 115, 100, 101>>
\* "m"
Kw_m == <<109>>
\* "m²"
Kw_m2 == <<109, 178>>
\* "mÂ²"
Kw_m2_mojibake == <<109, 194, 178>>

\* The test of the fallback on the text of a container.
IsBlock(txt) ==
    /\ txt # <<>>
    /\ Contains(txt, Kw_Modelo)
    /\ Contains(txt, Kw_Desde)
    /\ \/ Contains(txt, Kw_m)
       \/ Contains(txt, Kw_m2)
       \/ Contains(txt, Kw_m2_mojibake)

\* The texts of the div, section, article and li elements that pass the
\* test, in document order.
Blocks(page) ==
    LET n == Len(page.nodes)
        block(i) == /\ page.nodes[i].tag \in {"div", "section", "article", "li"}
                    /\ IsBlock(TextOf(page, i))
        is == SelectSeq(Indices(n), block)
    IN  AsSeq([k \in 1..Len(is) |-> TextOf(page, is[k])], Len(is))

\* Dedupe that keeps the last of equal elements.
Dedupe_keep_last(blocks) ==
    LET last(i) == \A j \in (i + 1)..Len(blocks) : blocks[j] # blocks[i]
        is == SelectSeq(Indices(Len(blocks)), last)
    IN  AsSeq([k \in 1..Len(is) |-> blocks[is[k]]], Len(is))

\* The sequence without the elements that occur earlier in it.
Dedupe(blocks) ==
    LET first(i) == \A j \in 1..(i - 1) : blocks[j] # blocks[i]
        is == SelectSeq(Indices(Len(blocks)), first)
    IN  AsSeq([k \in 1..Len(is) |-> blocks[is[k]]], Len(is))

\* extract_card_texts that is content with a selector that matches once.
extract_card_texts_any_match(page) ==
    LET found == {k \in 1..Len(selectors) :
                     Len(select(page, selectors[k])) >= 1}
    IN  IF found # {}
        THEN LET cards == select(page, selectors[SetMin(found)])
             IN  AsSeq([k \in 1..Len(cards) |-> TextOf(page, cards[k])],
                       Len(cards))
        ELSE Dedupe(Blocks(page))

\* extract_card_texts(html) on the page that the markup html stands for.
extract_card_texts(page) ==
    LET found == {k \in 1..Len(selectors) :
                     Len(select(page, selectors[k])) >= 2}
    IN  IF found # {}
        THEN LET cards == select(page, selectors[SetMin(found)])
             IN  AsSeq([k \in 1..Len(cards) |-> TextOf(page, cards[k])],
                       Len(cards))
        ELSE Dedupe(Blocks(page))

(***************************************************************************)
(* Pages.                                                                  *)
(***************************************************************************)
\* "Modelo A Desde S/ 1 40 m²"
BlockA == <<77, 111, 100, 101, 108, 111, 32, 65, 32, 68, 101, 115, 100, 101, 32, 83, 47, 32, 49, 32, 52, 48, 32, 109, 178>>
\* "Modelo B Desde S/ 2 50 mÂ²"
BlockB == <<77, 111, 100, 101, 108, 111, 32, 66, 32, 68, 101, 115, 100, 101, 32, 83, 47, 32, 50, 32, 53, 48, 32, 109, 194, 178>>
\* "Modelo C Desde S/ 3 2 dorms"
BlockNoUnit == <<77, 111, 100, 101, 108, 111, 32, 67, 32, 68, 101, 115, 100, 101, 32, 83, 47, 32, 51, 32, 50, 32, 100, 111, 114, 109, 115>>
\* "Modelo D Desde S/ 4"
BlockNoM == <<77, 111, 100, 101, 108, 111, 32, 68, 32, 68, 101, 115, 100, 101, 32, 83, 47, 32, 52>>
\* a space and a newline
Blank == <<32, 10>>

ExtractElements ==
    {Element("div", {"modelo-card"}, "", BlockA),
     Element("div", {"modelo-card", "card"}, "", BlockB),
     Element("article", {"card-modelo", "card"}, "", BlockNoUnit),
     Element("li", {}, "model-card", BlockA),
     Element("section", {}, "", BlockNoM),
     Element("span", {"card"}, "", <<>>),
     Element("div", {}, "", Blank)}

MaxElements == 3

\* The parents of n elements written in document order: an element is at
\* the top, or below the element before it or one of that element's
\* ancestors.
Parents(n) ==
    LET RECURSIVE above(_, _, _)
        above(pv, a, i) ==
            pv[i] # 0 /\ (pv[i] = a \/ above(pv, a, pv[i]))
    IN  {pv \in [1..n -> 0..(n - 1)] :
            \A j \in 1..n :
               \/ pv[j] = 0
               \/ j > 1 /\ (pv[j] = j - 1 \/ above(pv, pv[j], j - 1))}

\* The pages of at most max elements drawn from the set elements.
Pages(elements, max) ==
    UNION {{[nodes |-> es, parent |-> pv] :
               es \in [1..n -> elements], pv \in Parents(n)} : n \in 0..max}

Call_extract_card_texts ==
    Call("extract_card_texts", extract_card_texts(Val(arg)))

InitExtract == InitWith({Some(page) : page \in Pages(ExtractElements, MaxElements)})
NextExtract == Call_extract_card_texts
SpecExtract == InitExtract /\ [][NextExtract]_vars

(***************************************************************************)
(* Properties of extract_card_texts, checked under SpecExtract.            *)
(***************************************************************************)
\* The page of the call.
Page == Val(arg)

\* The number of elements of the page that the k-th card selector matches.
Hits(k) ==
    Cardinality({i \in 1..Len(Page.nodes) : Matches(Page, selectors[k], i)})

\* No card selector matches two elements: the keyword scan decides.
Fallback == \A k \in 1..Len(selectors) : Hits(k) < 2

\* The result lists the texts of the elements that the k-th card selector
\* matches, in document order.
IsResultOf(k) ==
    LET hits == {i \in 1..Len(Page.nodes) : Matches(Page, selectors[k], i)}
    IN  /\ Len(Result) = Cardinality(hits)
        /\ \A i \in hits :
              Result[Cardinality({j \in hits : j <= i})] = TextOf(Page, i)

\* C12: extract_card_texts returns the texts of the elements of the first
\* selector, in the order .modelo-card, .model-card,
\* [data-testid='model-card'], .card-modelo, .card, that matches at least
\* two elements; selectors that match one element or none are passed over,
\* and when every selector is passed over the result is that of the keyword
\* scan.
C12_FirstSelector ==
    Returned("extract_card_texts")
    => /\ \A k \in 1..Len(selectors) :
             Hits(k) >= 2 /\ (\A j \in 1..(k - 1) : Hits(j) < 2)
             => IsResultOf(k)
       /\ Fallback => Result = Dedupe(Blocks(Page))

\* The first selector matches one element and is passed over for a later
\* one that matches two.
C12_Witness ==
    /\ Returned("extract_card_texts")
    /\ Hits(1) = 1
    /\ \E k \in 2..Len(selectors) : Hits(k) >= 2 /\ IsResultOf(k)
    /\ ~IsResultOf(1)

\* C13: a text that the keyword scan keeps contains "Modelo", "Desde" and
\* the unit token, written "m2" with the superscript two or as its
\* mojibake; a text without the unit token is not kept.
C13_UnitToken ==
    Returned("extract_card_texts") /\ Fallback
    => \A k \in 1..Len(Result) :
          /\ Contains(Result[k], Kw_Modelo)
          /\ Contains(Result[k], Kw_Desde)
          /\ Contains(Result[k], Kw_m2) \/ Contains(Result[k], Kw_m2_mojibake)

\* The index of the first container of the page, in document order, whose
\* text is the kept text t.
FirstSeen(t) ==
    SetMin({i \in 1..Len(Page.nodes) :
               /\ Page.nodes[i].tag \in {"div", "section", "article", "li"}
               /\ TextOf(Page, i) = t})

\* C14: the result of the keyword scan has no text twice, has every text
\* that the scan keeps, and lists the texts in the order of their first
\* occurrence in the document; it is the empty list when the scan keeps
\* nothing.
C14_FirstSeenOrder ==
    Returned("extract_card_texts") /\ Fallback
    => /\ \A a, b \in 1..Len(Result) : a < b => Result[a] # Result[b]
       /\ {Result[k] : k \in 1..Len(Result)}
             = {TextOf(Page, i) : i \in {j \in 1..Len(Page.nodes) :
                   /\ Page.nodes[j].tag \in {"div", "section", "article", "li"}
                   /\ IsBlock(TextOf(Page, j))}}
       /\ \A a, b \in 1..Len(Result) :
             a < b => FirstSeen(Result[a]) < FirstSeen(Result[b])

\* Two texts are kept, and the first of them stood twice on the page.
C14_Witness ==
    /\ Returned("extract_card_texts")
    /\ Fallback
    /\ Len(Result) = 2
    /\ Len(Blocks(Page)) = 3
    /\ Blocks(Page)[3] = Result[1]

(***************************************************************************)
(* nexo/parser.py: NexoParser                                              *)
(*                                                                         *)
(* The markup of a page stands for its document and for the fault of the   *)
(* library on it: the call that raises ("" when none does), the class of   *)
(* the exception and its message.                                          *)
(***************************************************************************)
\* _find_first_text(soup, selectors): the text of the first element of the
\* first selector that matches one, or None.
RECURSIVE _find_first_text(_, _)
_find_first_text(page, sels) ==
    IF sels = <<>> THEN None
    ELSE LET el == select_one(page, Head(sels))
         IN  IF el # None THEN Some(TextOf(page, Val(el)))
             ELSE _find_first_text(page, Tail(sels))

\* if x: x = fix_mojibake(clean_text(x))
NormalizedIfAny(x) ==
    IF x = None \/ x = Some(<<>>) THEN x ELSE Some(fix_mojibake(clean_text(x)))

nombre_selectors ==
    <<ByTag("h1"), ByTagBelow("h1", "span"), ByClass("project-title"),
      ByClass("titulo")>>

direccion_selectors ==
    <<ByTestId("project-address"), ByClass("direccion"), ByClass("address"),
      ByClass("project-address")>>

\* Desde\s*(S\/|US\$)\s*([\d\.,]+) under re.IGNORECASE
DESDE_RE == <<
    Lit(<< <<68, 101, 115, 100, 101>> >>, ""),
    Spaces0,
    Lit(<< <<83, 47>>, <<85, 83, 36>> >>, "moneda"),
    Spaces0,
    Rep("num", 1, TRUE, "precio") >>

\* "Error parsing Nexo: "
ErrorPrefix == <<69, 114, 114, 111, 114, 32, 112, 97, 114, 115, 105, 110, 103, 32, 78, 101, 120, 111, 58, 32>>

\* ProjectPrice that reads the first number of the page.
ProjectPrice_first_number(full_text) ==
    LET m == Search(DESDE_RE, full_text)
    IN  IF m = None THEN [moneda |-> None, precio_desde |-> None]
        ELSE [moneda |-> Some(Group(full_text, Val(m), "moneda")),
              precio_desde |-> parse_money_to_float(Some(full_text))]

\* moneda and precio_desde of the project: the first match of the pattern
\* in the text of the whole page.
ProjectPrice(full_text) ==
    LET m == Search(DESDE_RE, full_text)
    IN  IF m = None THEN [moneda |-> None, precio_desde |-> None]
        ELSE LET moneda == Group(full_text, Val(m), "moneda")
             IN  [moneda |-> Some(moneda),
                  precio_desde |->
                      parse_money_to_float(
                          Some(moneda \o <<32>>
                               \o Group(full_text, Val(m), "precio")))]

\* Tipologias that leaves out the cards that the grammar does not match.
Tipologias_only_ok(card_texts) ==
    LET ok(t) == parse_card_text(Some(t)).parse_ok
        kept == SelectSeq(card_texts, ok)
    IN  AsSeq([i \in 1..Len(kept) |-> parse_card_text(Some(kept[i]))],
              Len(kept))

\* [parse_card_text(t) for t in card_texts]
Tipologias(card_texts) ==
    AsSeq([i \in 1..Len(card_texts) |-> parse_card_text(Some(card_texts[i]))],
          Len(card_texts))

\* The Proyecto that the body of NexoParser.parse builds from the document.
Proyecto(page) ==
    LET full_text == fix_mojibake(clean_text(Some(TextOf(page, 0))))
        price == ProjectPrice(full_text)
    IN  [nombre |-> NormalizedIfAny(_find_first_text(page, nombre_selectors)),
         direccion |->
             NormalizedIfAny(_find_first_text(page, direccion_selectors)),
         precio_desde |-> price.precio_desde,
         moneda |-> price.moneda,
         tipologias |-> Tipologias(extract_card_texts(page))]

\* NexoParser(html).parse(): the constructor builds the document, parse
\* wraps whatever is raised in its body in a ParseError.
NexoParser_parse(html) ==
    IF html.fault.at = "BeautifulSoup"
    THEN [raised |-> html.fault.exc, message |-> html.fault.message,
          proyecto |-> None]
    ELSE IF html.fault.at # ""
    THEN [raised |-> "ParseError",
          message |-> ErrorPrefix \o html.fault.message,
          proyecto |-> None]
    ELSE [raised |-> "", message |-> <<>>, proyecto |-> Some(Proyecto(html))]

\* "Torre NÃ¡poles"
TitleMojibake == <<84, 111, 114, 114, 101, 32, 78, 195, 161, 112, 111, 108, 101, 115>>
\* "Torre Sol desde s/ 9"
TitleSol == <<84, 111, 114, 114, 101, 32, 83, 111, 108, 32, 100, 101, 115, 100, 101, 32, 115, 47, 32, 57>>
\* "Av. Lima 12"
Address == <<65, 118, 46, 32, 76, 105, 109, 97, 32, 49, 50>>
\* "Modelo A Desde S/ 1,5 40 m²"
CardDegraded == <<77, 111, 100, 101, 108, 111, 32, 65, 32, 68, 101, 115, 100, 101, 32, 83, 47, 32, 49, 44, 53, 32, 52, 48, 32, 109, 178>>
\* "T 1 unidad disponible Desde US$ 2 Modelo B 3 m2 Piso 4 5 dorm 6 baño"
CardFull == <<84, 32, 49, 32, 117, 110, 105, 100, 97, 100, 32, 100, 105, 115, 112, 111, 110, 105, 98, 108, 101, 32, 68, 101, 115, 100, 101, 32, 85, 83, 36, 32, 50, 32, 77, 111, 100, 101, 108, 111, 32, 66, 32, 51, 32, 109, 50, 32, 80, 105, 115, 111, 32, 52, 32, 53, 32, 100, 111, 114, 109, 32, 54, 32, 98, 97, 241, 111>>
\* "maximum recursion depth exceeded"
FaultMessage == <<109, 97, 120, 105, 109, 117, 109, 32, 114, 101, 99, 117, 114, 115, 105, 111, 110, 32, 100, 101, 112, 116, 104, 32, 101, 120, 99, 101, 101, 100, 101, 100>>

PageElements ==
    {Element("h1", {}, "", Blank),
     Element("h1", {}, "", TitleMojibake),
     Element("div", {"project-title"}, "", TitleSol),
     Element("p", {"direccion"}, "", Address),
     Element("div", {"card"}, "", CardDegraded),
     Element("li", {"card"}, "", CardFull)}

MaxPageElements == 2

NoFault == [at |-> "", exc |-> "", message |-> <<>>]

\* The library calls of page parsing, each raising on some markup.
Faults ==
    {NoFault,
     [at |-> "BeautifulSoup", exc |-> "ParserRejectedMarkup",
      message |-> FaultMessage]}
    \cup {[at |-> a, exc |-> "RecursionError", message |-> FaultMessage] :
             a \in {"select_one", "get_text", "select"}}

Markups ==
    {[nodes |-> page.nodes, parent |-> page.parent, fault |-> f] :
        page \in Pages(PageElements, MaxPageElements), f \in Faults}

Call_NexoParser_parse ==
    Call("NexoParser_parse", NexoParser_parse(Val(arg)))

InitPage == InitWith({Some(html) : html \in Markups})
NextPage == Call_NexoParser_parse
SpecPage == InitPage /\ [][NextPage]_vars

(***************************************************************************)
(* Properties of NexoParser.parse, checked under SpecPage.                 *)
(***************************************************************************)
\* The call returned a Proyecto.
Parsed == Returned("NexoParser_parse") /\ Result.raised = ""
Project == Val(Result.proyecto)

\* The text of the first element that the selector matches ("" when it
\* matches none).
FirstText(sel) ==
    LET hits == {i \in 1..Len(Page.nodes) : Matches(Page, sel, i)}
    IN  IF hits = {} THEN <<>> ELSE TextOf(Page, SetMin(hits))

\* The field is the normalized text of the first of the selectors whose
\* first element has text, and is empty or unset only when none has.
FirstNonEmptyWins(field, sels) ==
    LET good == {k \in 1..Len(sels) : FirstText(sels[k]) # <<>>}
    IN  IF good = {} THEN field \in {None, Some(<<>>)}
        ELSE field = Some(fix_mojibake(clean_text(
                              Some(FirstText(sels[SetMin(good)])))))

\* C15: the project name, and likewise the address, is the text of the first
\* selector in priority order whose element has non-empty text; an element
\* with empty text does not stop the search.
C15_FirstNonEmpty ==
    Parsed
    => /\ FirstNonEmptyWins(Project.nombre, nombre_selectors)
       /\ FirstNonEmptyWins(Project.direccion, direccion_selectors)

\* C16: every failure of page parsing reaches the caller as a ParseError
\* that carries the message of the original error; no other exception
\* escapes.
C16_OnlyParseError ==
    Returned("NexoParser_parse")
    => /\ Result.raised \in {"", "ParseError"}
       /\ Page.fault.at # ""
          => /\ Result.raised = "ParseError"
             /\ Result.message = ErrorPrefix \o Page.fault.message

\* C17: the tipologias of the Proyecto are the records of the card texts
\* that extract_card_texts returns, one per text and in the same order; a
\* text that the grammar does not match is kept as its degraded record.
C17_OnePerCard ==
    Parsed
    => LET cards == extract_card_texts(Page)
       IN  /\ Len(Project.tipologias) = Len(cards)
           /\ \A i \in 1..Len(cards) :
                 /\ Project.tipologias[i] = parse_card_text(Some(cards[i]))
                 /\ Project.tipologias[i].raw
                       = fix_mojibake(clean_text(Some(cards[i])))

\* Two cards, the first of which the grammar does not match.
C17_Witness ==
    /\ Parsed
    /\ Len(Project.tipologias) = 2
    /\ ~Project.tipologias[1].parse_ok
    /\ Project.tipologias[2].parse_ok

\* The normalized text of the whole page.
FullText == fix_mojibake(clean_text(Some(TextOf(Page, 0))))

\* The word w, given in lower case, stands at index i of the text t in any
\* mix of cases.
WordAt(t, w, i) ==
    /\ i + Len(w) - 1 <= Len(t)
    /\ FoldSeq(SubSeq(t, i, i + Len(w) - 1)) = w

\* The first index of t from i on that holds no whitespace.
PastSpaces(t, i) ==
    CHOOSE j \in i..(Len(t) + 1) :
        /\ j = Len(t) + 1 \/ ~IsSpace(t[j])
        /\ \A k \in i..(j - 1) : IsSpace(t[k])

\* "desde", "s/" and "us$"
WordDesde == <<100, 101, 115, 100, 101>>
Currencies == {<<115, 47>>, <<117, 115, 36>>}

\* "Desde <currency> <amount>" stands at index i of the text t, with the
\* currency cur.
PriceAt(t, i, cur) ==
    /\ WordAt(t, WordDesde, i)
    /\ LET j == PastSpaces(t, i + Len(WordDesde))
       IN  /\ WordAt(t, cur, j)
           /\ LET k == PastSpaces(t, j + Len(cur))
              IN  k <= Len(t) /\ IsNumChar(t[k])

\* C18: moneda and precio_desde of the Proyecto are the currency and the
\* amount of the first "Desde <currency> <amount>" of the normalized text
\* of the whole page, the amount read as the number that its digits spell
\* (unset when it has none); both are unset when the page has no such
\* text.
C18_PagePrice ==
    Parsed
    => LET t == FullText
           at == {i \in 1..Len(t) : \E cur \in Currencies : PriceAt(t, i, cur)}
       IN  IF at = {}
           THEN Project.moneda = None /\ Project.precio_desde = None
           ELSE LET i == SetMin(at)
                    cur == CHOOSE c \in Currencies : PriceAt(t, i, c)
                    j == PastSpaces(t, i + Len(WordDesde))
                    k == PastSpaces(t, j + Len(cur))
                    stop == CHOOSE e \in k..Len(t) :
                               /\ \A x \in k..e : IsNumChar(t[x])
                               /\ e = Len(t) \/ ~IsNumChar(t[e + 1])
                    ds == SelectSeq(SubSeq(t, k, stop), IsDigit)
                IN  /\ Project.moneda = Some(SubSeq(t, j, j + Len(cur) - 1))
                    /\ IF ds = <<>> THEN Project.precio_desde = None
                       ELSE /\ Project.precio_desde # None
                            /\ Val(Project.precio_desde)[2] = 0
                            /\ IsValueOf(Val(Project.precio_desde)[1], ds)

\* The price of the project is written in the title, and no card has it.
C18_Witness ==
    /\ Parsed
    /\ Project.precio_desde = Some(<<9, 0>>)
    /\ Project.tipologias # <<>>
    /\ \A i \in 1..Len(Project.tipologias) :
          Project.tipologias[i].precio_desde # Project.precio_desde

(***************************************************************************)
(* Properties of the fields of CARD_RE, checked under Spec.                *)
(***************************************************************************)
\* C21: on every fully matched card moneda is one of the two symbols "S/"
\* and "US$", letter for letter.
C21_CurrencySymbol ==
    Returned("parse_card_text") /\ Result.parse_ok
    => Result.moneda \in {Some(Soles), Some(Dollars)}

\* The four ways of writing the unit of the area: "m²", "m2", "mÂ²", "m 2".
UnitForms == {Area5704, Area4463, AreaMojibake, AreaSpacedUnit}

\* The cards whose other fields the grammar matches, with the area in each
\* of the four forms.
UnitFormCards ==
    {Card(c) : c \in Joins \X {HeadFull} \X {Units27} \X {PriceSoles}
                         \X {ModelAX01} \X UnitForms \X {Floor2} \X {Rooms2}}

\* C22: a card whose other fields match and whose area is written with the
\* unit "m²", "mÂ²", "m2" or "m 2" is fully matched.
C22_AreaUnits ==
    Returned("parse_card_text") /\ arg \in {Some(t) : t \in UnitFormCards}
    => Result.parse_ok

\* "baÃ±"
Kw_ban_mojibake == <<98, 97, 195, 177>>

\* The cards whose other fields the grammar matches, with two bathrooms
\* written in the mojibake rendering.
MojibakeBathCards ==
    {Card(c) : c \in Joins \X {HeadFull} \X {Units1} \X {PriceSoles}
                         \X Models \X {Area5704, Area4463} \X {Floor2}
                         \X {Rooms2Mojibake}}

\* C23: a card whose other fields match and whose normalized text still
\* has the bathrooms in the mojibake rendering "baÃ±o(s)" is fully matched
\* and banos is the number written before it.
C23_MojibakeBath ==
    /\ Returned("parse_card_text")
    /\ arg \in {Some(t) : t \in MojibakeBathCards}
    /\ Contains(Result.raw, Kw_ban_mojibake)
    => Result.parse_ok /\ Result.banos = Some(2)

(***************************************************************************)
(* nexo/discover.py: normalize_url and read_urls_file                      *)
(*                                                                         *)
(* urldefrag is urllib.parse's: a text without '#' is returned as it is,   *)
(* any other is split by urlparse and put together again by urlunparse     *)
(* without its fragment.  The texts are ASCII without ';', '[' and ']', so *)
(* that a URL has no params and no bracketed host.                         *)
(***************************************************************************)
\* The first index of the character c in t from index i on, 0 without one
\* (str.find, counted from 1).
Find(t, c, i) ==
    LET at == {k \in i..Len(t) : t[k] = c}
    IN  IF at = {} THEN 0 ELSE SetMin(at)

\* t[i:] for an index i counted from 1.
From(t, i) == SubSeq(t, i, Len(t))

\* url.lstrip(_WHATWG_C0_CONTROL_OR_SPACE)
LStripC0(t) ==
    LET ink == {i \in 1..Len(t) : t[i] > 32}
    IN  IF ink = {} THEN <<>> ELSE From(t, SetMin(ink))

\* The removal of tab, CR and LF (_UNSAFE_URL_BYTES_TO_REMOVE).
IsSafeUrlChar(c) == c \notin {9, 10, 13}

\* scheme_chars: the ASCII letters and digits, '+', '-' and '.'.
IsSchemeChar(c) ==
    c \in 97..122 \/ c \in 65..90 \/ c \in 48..57 \/ c \in {43, 45, 46}

\* str.lower() of an ASCII text.
Lower(t) ==
    AsSeq([i \in 1..Len(t) |-> IF t[i] \in 65..90 THEN t[i] + 32 ELSE t[i]],
          Len(t))

\* uses_netloc without its empty entry:
\* ftp, http, gopher, nntp, telnet, imap, wais, file, mms, https, shttp,
\* snews, prospero, rtsp, rtsps, rtspu, rsync, svn, svn+ssh, sftp, nfs,
\* git, git+ssh, ws, wss
uses_netloc ==
    {<<102, 116, 112>>, <<104, 116, 116, 112>>,
     <<103, 111, 112, 104, 101, 114>>, <<110, 110, 116, 112>>,
     <<116, 101, 108, 110, 101, 116>>, <<105, 109, 97, 112>>,
     <<119, 97, 105, 115>>, <<102, 105, 108, 101>>, <<109, 109, 115>>,
     <<104, 116, 116, 112, 115>>, <<115, 104, 116, 116, 112>>,
     <<115, 110, 101, 119, 115>>,
     <<112, 114, 111, 115, 112, 101, 114, 111>>, <<114, 116, 115, 112>>,
     <<114, 116, 115, 112, 115>>, <<114, 116, 115, 112, 117>>,
     <<114, 115, 121, 110, 99>>, <<115, 118, 110>>,
     <<115, 118, 110, 43, 115, 115, 104>>, <<115, 102, 116, 112>>,
     <<110, 102, 115>>, <<103, 105, 116>>,
     <<103, 105, 116, 43, 115, 115, 104>>, <<119, 115>>, <<119, 115, 115>>}

\* urlsplit starts on the text without the leading control characters and
\* spaces and without its tabs, CRs and LFs.
Sanitized(u) == SelectSeq(LStripC0(u), IsSafeUrlChar)

\* The text starts with a scheme: letters, digits, '+', '-' and '.' up to
\* the first ':', the first of them an ASCII letter.
HasScheme(url) ==
    /\ Find(url, 58, 1) > 1
    /\ url[1] \in 97..122 \/ url[1] \in 65..90
    /\ \A k \in 1..(Find(url, 58, 1) - 1) : IsSchemeChar(url[k])

SchemeOf(url) ==
    IF HasScheme(url) THEN Lower(SubSeq(url, 1, Find(url, 58, 1) - 1))
    ELSE <<>>

AfterScheme(url) ==
    IF HasScheme(url) THEN From(url, Find(url, 58, 1) + 1) ELSE url

\* url[:2] == '//'
HasNetloc(rest) == Len(rest) >= 2 /\ rest[1] = 47 /\ rest[2] = 47

\* _splitnetloc: the netloc ends before the first '/', '?' or '#'.
NetlocEnd(rest) ==
    IF {k \in 3..Len(rest) : rest[k] \in {47, 63, 35}} = {}
    THEN Len(rest) + 1
    ELSE SetMin({k \in 3..Len(rest) : rest[k] \in {47, 63, 35}})

NetlocOf(rest) ==
    IF HasNetloc(rest) THEN SubSeq(rest, 3, NetlocEnd(rest) - 1) ELSE <<>>

AfterNetloc(rest) ==
    IF HasNetloc(rest) THEN From(rest, NetlocEnd(rest)) ELSE rest

\* t.split(c, 1): the text before the first c, and the text after it.
Before(t, c) ==
    IF Find(t, c, 1) = 0 THEN t ELSE SubSeq(t, 1, Find(t, c, 1) - 1)
After(t, c) ==
    IF Find(t, c, 1) = 0 THEN <<>> ELSE From(t, Find(t, c, 1) + 1)

\* urlsplit(url): scheme, netloc, path, query and fragment.
urlsplit(u) ==
    [scheme |-> SchemeOf(Sanitized(u)),
     netloc |-> NetlocOf(AfterScheme(Sanitized(u))),
     path |-> Before(Before(AfterNetloc(AfterScheme(Sanitized(u))), 35), 63),
     query |-> After(Before(AfterNetloc(AfterScheme(Sanitized(u))), 35), 63),
     fragment |-> After(AfterNetloc(AfterScheme(Sanitized(u))), 35)]

\* urlunsplit adds '//' and the netloc when there is a netloc, or a scheme
\* of uses_netloc before a path that does not start with '//'.
HasAuthority(parts) ==
    \/ parts.netloc # <<>>
    \/ /\ parts.scheme # <<>>
       /\ parts.scheme \in uses_netloc
       /\ ~HasNetloc(parts.path)

Rooted(path) ==
    IF path # <<>> /\ path[1] # 47 THEN <<47>> \o path ELSE path

\* urlunsplit(parts)
urlunsplit(parts) ==
    (IF parts.scheme # <<>> THEN parts.scheme \o <<58>> ELSE <<>>)
    \o (IF HasAuthority(parts)
        THEN <<47, 47>> \o parts.netloc \o Rooted(parts.path)
        ELSE parts.path)
    \o (IF parts.query # <<>> THEN <<63>> \o parts.query ELSE <<>>)
    \o (IF parts.fragment # <<>> THEN <<35>> \o parts.fragment ELSE <<>>)

\* urldefrag(u)[0]
urldefrag(u) ==
    IF Find(u, 35, 1) = 0 THEN u
    ELSE urlunsplit([urlsplit(u) EXCEPT !.fragment = <<>>])

\* len("https://")
SchemeLen == 8

\* normalize_url(u), u a text or None
normalize_url(x) ==
    LET u == Strip(IF x = None THEN <<>> ELSE Val(x))
        d == urldefrag(u)
    IN  IF u = <<>> THEN u
        ELSE IF d # <<>> /\ d[Len(d)] = 47 /\ Len(d) > SchemeLen
        THEN SubSeq(d, 1, Len(d) - 1)
        ELSE d

\* The entries of read_urls_file before the de-duplication: the lines
\* that are neither blank nor comments, normalized.
UrlEntries(lines) ==
    LET s(i) == Strip(lines[i])
        kept(i) == s(i) # <<>> /\ s(i)[1] # 35
        is == SelectSeq(Indices(Len(lines)), kept)
    IN  AsSeq([k \in 1..Len(is) |-> normalize_url(Some(s(is[k])))], Len(is))

\* read_urls_file(path), lines being the lines of the file
read_urls_file(lines) == Dedupe(UrlEntries(lines))

\* "https://a"
UrlHttps == <<104, 116, 116, 112, 115, 58, 47, 47, 97>>
\* "HTTP://a"
UrlUpper == <<72, 84, 84, 80, 58, 47, 47, 97>>
\* "a"
UrlRelative == <<97>>

MaxUrlLen == 3
MaxLines == 2

\* '/', '#', ' ', '?', ':', 'a'
UrlChars == {47, 35, 32, 63, 58, 97}

\* The URLs: a start followed by a few characters.
Urls ==
    {b \o t : b \in {UrlHttps, UrlUpper, UrlRelative, <<>>},
              t \in StringsUpTo(UrlChars, MaxUrlLen)}

\* "https://a//"
LineTwoSlashes == <<104, 116, 116, 112, 115, 58, 47, 47, 97, 47, 47>>
\* "https://a/"
LineSlash == <<104, 116, 116, 112, 115, 58, 47, 47, 97, 47>>
\* " https://a/#top "
LineFragment == <<32, 104, 116, 116, 112, 115, 58, 47, 47, 97, 47, 35, 116, 111, 112, 32>>
\* "https://a"
LinePlain == <<104, 116, 116, 112, 115, 58, 47, 47, 97>>
\* "# https://a"
LineComment == <<35, 32, 104, 116, 116, 112, 115, 58, 47, 47, 97>>
\* "  "
LineBlank == <<32, 32>>

FileLines ==
    {LineTwoSlashes, LineSlash, LineFragment, LinePlain, LineComment,
     LineBlank}

\* The sequences of at most n elements of the set A.
RECURSIVE SeqsUpTo(_, _)
SeqsUpTo(A, n) ==
    IF n = 0 THEN {<<>>}
    ELSE LET S == SeqsUpTo(A, n - 1)
         IN  S \cup {Append(x, a) : x \in {y \in S : Len(y) = n - 1}, a \in A}

\* What a call is given: a URL (or None) for normalize_url, the lines of
\* the file for read_urls_file.
UrlInputs ==
    {[of |-> "normalize_url", u |-> x, lines |-> <<>>] :
        x \in {None} \cup {Some(u) : u \in Urls}}
    \cup {[of |-> "read_urls_file", u |-> None, lines |-> ls] :
             ls \in SeqsUpTo(FileLines, MaxLines)}

Call_normalize_url ==
    /\ Val(arg).of = "normalize_url"
    /\ Call("normalize_url", normalize_url(Val(arg).u))

Call_read_urls_file ==
    /\ Val(arg).of = "read_urls_file"
    /\ Call("read_urls_file", read_urls_file(Val(arg).lines))

InitUrl == InitWith({Some(x) : x \in UrlInputs})
NextUrl == Call_normalize_url \/ Call_read_urls_file
SpecUrl == InitUrl /\ [][NextUrl]_vars

(***************************************************************************)
(* Properties of normalize_url and read_urls_file, checked under SpecUrl.  *)
(***************************************************************************)
\* C26: normalize_url(normalize_url(u)) = normalize_url(u) for every u, and
\* no two entries of the list that read_urls_file returns normalize to the
\* same URL.
C26_Idempotent ==
    /\ Returned("normalize_url")
       => normalize_url(Some(Result)) = Result
    /\ Returned("read_urls_file")
       => \A i, j \in 1..Len(Result) :
             i # j => normalize_url(Some(Result[i]))
                         # normalize_url(Some(Result[j]))

(***************************************************************************)
(* registry/sqlite_registry.py: RegistryDB                                 *)
(*                                                                         *)
(* A table is the set of its rows.  INSERT OR REPLACE removes the row with *)
(* the same primary key first.  The columns that no statement reads back   *)
(* and no property names (timings, byte and row counts, notes, and the     *)
(* created_at of artifacts and diffs) are left out.  A run_id is the       *)
(* number of the run: uuid4 gives every run an id of its own.              *)
(***************************************************************************)
\* start_run: the row of a new run, its counts at their DEFAULT 0.
start_run(reg, run_id, urls_count) ==
    [reg EXCEPT !.runs = @ \cup {[run_id |-> run_id, urls_count |-> urls_count,
                                  ok_count |-> 0, fail_count |-> 0,
                                  ended |-> FALSE]}]

\* finalize_run: the counts of the run are the numbers of its rows of
\* url_results with status 'ok' and with status 'fail'.
finalize_run(reg, run_id) ==
    LET rows(status) == {u \in reg.url_results :
                            u.run_id = run_id /\ u.status = status}
    IN  [reg EXCEPT !.runs =
            {IF r.run_id = run_id
             THEN [r EXCEPT !.ended = TRUE,
                            !.ok_count = Cardinality(rows("ok")),
                            !.fail_count = Cardinality(rows("fail"))]
             ELSE r : r \in @}]

\* log_url_result: PRIMARY KEY (run_id, url).
log_url_result(reg, run_id, url, status, error_type, created_at) ==
    [reg EXCEPT !.url_results =
        {u \in @ : ~(u.run_id = run_id /\ u.url = url)}
        \cup {[run_id |-> run_id, url |-> url, status |-> status,
                error_type |-> error_type, created_at |-> created_at]}]

\* log_artifact: PRIMARY KEY (run_id, path).  sha256 is the hash of the
\* file at the path, None with compute_hash=False.
log_artifact(reg, run_id, artifact_type, path, url, sha256) ==
    [reg EXCEPT !.artifacts =
        {a \in @ : ~(a.run_id = run_id /\ a.path = path)}
        \cup {[run_id |-> run_id, url |-> url,
                artifact_type |-> artifact_type, path |-> path,
                sha256 |-> sha256]}]

\* get_last_success_tipologias_hash(url): <<run_id, sha256>> of the joined
\* row with the latest url_results.created_at, <<None, None>> without one.
get_last_success_tipologias_hash(reg, url) ==
    LET joined == {<<a, u>> \in reg.artifacts \X reg.url_results :
                      /\ u.run_id = a.run_id
                      /\ Some(u.url) = a.url \/ a.url = None
                      /\ a.artifact_type = "tipologias_parquet"
                      /\ a.url = Some(url)
                      /\ u.status = "ok"}
        last == CHOOSE j \in joined :
                    \A k \in joined : k[2].created_at <= j[2].created_at
    IN  IF joined = {} THEN <<None, None>>
        ELSE <<Some(last[1].run_id), last[1].sha256>>

\* log_diff: PRIMARY KEY (run_id, url).  cur_sha256 and prev_sha256 are the
\* entries of diff_json.
log_diff(reg, run_id, url, compare_to_run_id, diff_status, cur, prev) ==
    [reg EXCEPT !.diffs =
        {d \in @ : ~(d.run_id = run_id /\ d.url = url)}
        \cup {[run_id |-> run_id, url |-> url,
                compare_to_run_id |-> compare_to_run_id,
                diff_status |-> diff_status, cur_sha256 |-> cur,
                prev_sha256 |-> prev]}]

(***************************************************************************)
(* scripts/nexo_batch_old.py: main, without --debug                        *)
(***************************************************************************)
\* _read_urls: the lines of the file that are neither blank nor comments,
\* stripped.
_read_urls(lines) ==
    LET s(i) == Strip(lines[i])
        kept(i) == s(i) # <<>> /\ s(i)[1] # 35
        is == SelectSeq(Indices(Len(lines)), kept)
    IN  AsSeq([k \in 1..Len(is) |-> s(is[k])], Len(is))

\* [a-zA-Z0-9]
IsAlnum(c) == c \in 48..57 \/ c \in 65..90 \/ c \in 97..122

\* The longest slug.
SlugLen == 80

\* _slugify(url): every run of other characters becomes one '-', those at
\* the two ends are dropped, and the last 80 characters are kept.
_slugify(url) ==
    LET first(i) == IsAlnum(url[i]) \/ i = 1 \/ IsAlnum(url[i - 1])
        is == SelectSeq(Indices(Len(url)), first)
        sub == AsSeq([k \in 1..Len(is) |->
                        IF IsAlnum(url[is[k]]) THEN url[is[k]] ELSE 45],
                     Len(is))
        ink == {k \in 1..Len(sub) : sub[k] # 45}
        s == IF ink = {} THEN <<>> ELSE SubSeq(sub, SetMin(ink), SetMax(ink))
    IN  IF Len(s) > SlugLen THEN SubSeq(s, Len(s) - SlugLen + 1, Len(s))
        ELSE s

\* The paths of the files of a run under out_dir.
ProjPath(url) == [file |-> "proyecto.parquet", of |-> _slugify(url)]
TipPath(url) == [file |-> "tipologias.parquet", of |-> _slugify(url)]
RunLogPath(run_id) == [file |-> "run.txt", of |-> <<run_id>>]
RegistryPath == [file |-> "scraper_registry.db", of |-> <<>>]

\* The start of main: the run row and the two artifacts of the run itself.
\* The run log is hashed while it is still being written.
Started(reg, run_id, urls) ==
    log_artifact(
        log_artifact(start_run(reg, run_id, Len(urls)),
                     run_id, "run_log", RunLogPath(run_id), None, Some(0)),
        run_id, "registry_db", RegistryPath, None, None)

\* One URL of the loop that raises: the except branch.
Failed(reg, run_id, url, error_type, t) ==
    log_url_result(reg, run_id, url, "fail", error_type, t)

\* The diff of a URL: the hash of the tipologias file that was just written
\* against the one that get_last_success_tipologias_hash returns.
Diffed(reg, run_id, url, cur) ==
    LET prev == get_last_success_tipologias_hash(reg, url)
        status == IF prev[2] = None THEN "new_url"
                  ELSE IF prev[2] = Some(cur) THEN "no_change"
                  ELSE "changed"
    IN  log_diff(reg, run_id, url, prev[1], status, Some(cur), prev[2])

\* One URL of the loop that raises nothing: the two files are written and
\* registered, the diff is logged, then the result.  proj and tip are the
\* hashes of the two files.
Succeeded(reg, run_id, url, proj, tip, t) ==
    LET r1 == log_artifact(reg, run_id, "project_parquet", ProjPath(url),
                           Some(url), Some(proj))
        r2 == log_artifact(r1, run_id, "tipologias_parquet", TipPath(url),
                           Some(url), Some(tip))
    IN  log_url_result(Diffed(r2, run_id, url, tip), run_id, url, "ok", "", t)

\* "https://a/x"
PageX == <<104, 116, 116, 112, 115, 58, 47, 47, 97, 47, 120>>
\* "https://a/x/"
PageXSlash == <<104, 116, 116, 112, 115, 58, 47, 47, 97, 47, 120, 47>>
\* " https://a/y"
PageY == <<32, 104, 116, 116, 112, 115, 58, 47, 47, 97, 47, 121>>

\* The lines of a urls file.
BatchLines == {PageX, PageXSlash, PageY, LineComment}

MaxRuns == 2
MaxBatchLines == 2

\* The hashes of the tipologias file and of the project file of a page.
Hashes == {1, 2}
ProjHashes == {3}

\* What scraper.run and write_project_and_tipologias raise.
Errors == {"FetchError", "ParseError"}

\* main up to the loop: the URLs are read, and with at least one of them
\* the run is started (with none, main raises before it opens the
\* registry).
Main_start ==
    /\ main.pc = "idle"
    /\ Cardinality(registry.runs) < MaxRuns
    /\ \E lines \in SeqsUpTo(BatchLines, MaxBatchLines) :
          LET urls == _read_urls(lines)
              run_id == Cardinality(registry.runs) + 1
          IN  /\ urls # <<>>
              /\ registry' = Started(registry, run_id, urls)
              /\ main' = [pc |-> "loop", run_id |-> run_id, urls |-> urls,
                          i |-> 1, ok |-> 0, fail |-> 0]
    /\ UNCHANGED <<fn, arg, ret, now>>

\* One turn of the loop in which nothing raises.
Main_url_ok ==
    /\ main.pc = "loop"
    /\ main.i <= Len(main.urls)
    /\ \E proj \in ProjHashes, tip \in Hashes :
          registry' = Succeeded(registry, main.run_id, main.urls[main.i],
                                proj, tip, now + 1)
    /\ main' = [main EXCEPT !.i = @ + 1, !.ok = @ + 1]
    /\ now' = now + 1
    /\ UNCHANGED <<fn, arg, ret>>

\* One turn of the loop in which the fetch, the parse or the write raises.
Main_url_fail ==
    /\ main.pc = "loop"
    /\ main.i <= Len(main.urls)
    /\ \E e \in Errors :
          registry' = Failed(registry, main.run_id, main.urls[main.i], e,
                             now + 1)
    /\ main' = [main EXCEPT !.i = @ + 1, !.fail = @ + 1]
    /\ now' = now + 1
    /\ UNCHANGED <<fn, arg, ret>>

\* The end of main: finalize_run, after the last URL.
Main_finalize ==
    /\ main.pc = "loop"
    /\ main.i > Len(main.urls)
    /\ registry' = finalize_run(registry, main.run_id)
    /\ main' = Idle
    /\ UNCHANGED <<fn, arg, ret, now>>

InitBatch == fn = "none" /\ arg = None /\ ret = None /\ NoBatch
NextBatch == Main_start \/ Main_url_ok \/ Main_url_fail \/ Main_finalize
SpecBatch == InitBatch /\ [][NextBatch]_vars

(***************************************************************************)
(* Properties of the batch run, checked under SpecBatch.                   *)
(***************************************************************************)
\* The row of url_results of the run and the URL, if any.
ResultRows(reg, run_id, url) ==
    {u \in reg.url_results : u.run_id = run_id /\ u.url = url}

\* A turn of the loop that counts a failure records a 'fail' result for
\* its URL and leaves the loop at the next URL.
FailureIsRecorded ==
    main.pc = "loop" /\ main'.fail = main.fail + 1
    => /\ \E u \in ResultRows(registry', main.run_id, main.urls[main.i]) :
             u.status = "fail"
       /\ main'.pc = "loop"
       /\ main'.i = main.i + 1

\* The counts of every finalized run add up to its urls_count.
CountsAddUp ==
    \A r \in registry.runs :
        r.ended => r.ok_count + r.fail_count = r.urls_count

\* C24: a failure on one URL is recorded as a 'fail' result for that URL
\* and the run goes on with the next URL; once the run is finalized, the
\* ok_count and the fail_count of its row add up to its urls_count.
C24_BatchCounts == [][FailureIsRecorded]_vars /\ []CountsAddUp

\* The earlier runs in which the URL has the result 'ok'.
EarlierSuccesses(run_id, url) ==
    {r \in 1..(run_id - 1) :
        \E u \in ResultRows(registry, r, url) : u.status = "ok"}

\* The hashes that the run recorded for the tipologias file of the URL.
RecordedHashes(run_id, url) ==
    {a.sha256 : a \in {b \in registry.artifacts :
                           /\ b.run_id = run_id
                           /\ b.artifact_type = "tipologias_parquet"
                           /\ b.url = Some(url)}}

\* C25: every diff that a run logs for a URL compares the hash of the
\* tipologias file with the one recorded by the latest earlier run in which
\* the URL succeeded: 'new_url' without such a run, 'no_change' with equal
\* hashes, 'changed' otherwise; it never compares with the run itself.
C25_DiffAgainstEarlierRun ==
    \A d \in registry.diffs :
        LET earlier == EarlierSuccesses(d.run_id, d.url)
        IN  IF earlier = {}
            THEN d.diff_status = "new_url" /\ d.compare_to_run_id = None
            ELSE /\ d.compare_to_run_id = Some(SetMax(earlier))
                 /\ RecordedHashes(SetMax(earlier), d.url) = {d.prev_sha256}
                 /\ d.diff_status = IF d.prev_sha256 = d.cur_sha256
                                     THEN "no_change" ELSE "changed"

====
